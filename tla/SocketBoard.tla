---------------------------- MODULE SocketBoard ----------------------------
(***************************************************************************)
(* What the account's numbered sockets (rune sockets, skill slots) promise *)
(* to someone who only looks at committed states: a board of sockets, each *)
(* holding at most one owned item and each item in at most one socket; a   *)
(* change places one item, takes one off, or gains or loses one.           *)
(***************************************************************************)
CONSTANTS Item, Socket, Nothing

VARIABLES owned,   \* the items of the account
          board    \* [Socket -> Item or Nothing]

vars == <<owned, board>>

Without(b, i) == [s \in Socket |-> IF b[s] = i THEN Nothing ELSE b[s]]

Init ==
  /\ owned \in SUBSET Item
  /\ board \in [Socket -> owned \cup {Nothing}]
  /\ \A s, t \in Socket : board[s] = board[t] /\ board[s] # Nothing => s = t

\* Put item i into socket s: one step out of the socket it was in, and over
\* whatever was in s.
Place(i, s) ==
  /\ i \in owned
  /\ board' = [Without(board, i) EXCEPT ![s] = i]
  /\ UNCHANGED owned

TakeOff(s) ==
  /\ board[s] # Nothing
  /\ board' = [board EXCEPT ![s] = Nothing]
  /\ UNCHANGED owned

Gain(i) ==
  /\ i \notin owned
  /\ owned' = owned \cup {i}
  /\ UNCHANGED board

Lose(i) ==
  /\ i \in owned
  /\ owned' = owned \ {i}
  /\ board' = Without(board, i)

Next ==
  \/ \E i \in Item : Gain(i) \/ Lose(i) \/ \E s \in Socket : Place(i, s)
  \/ \E s \in Socket : TakeOff(s)

Spec == Init /\ [][Next]_vars
=============================================================================
