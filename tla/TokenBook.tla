------------------------------- MODULE TokenBook -------------------------------
(***************************************************************************)
(* What the token store promises: the record of a token appears at once,   *)
(* as it was made, and stays until it expires.  Nothing else changes it:   *)
(* there are no files, no cache, no lock, no failed writes and no restarts *)
(* here.  TokenStore implements this.                                      *)
(***************************************************************************)
EXTENDS Tokens

VARIABLES
  made,     \* made[k]: the record made for token k, before it is stored
  book,     \* book[k]: the live record a lookup finds
  clock

bookVars == <<made, book, clock>>

Drop(b, now) == [k \in Token |-> IF LiveAt(b[k], now) THEN b[k] ELSE None]

BookInit == /\ made = [k \in Token |-> None]
            /\ book = [k \in Token |-> None]
            /\ clock = 0

\* IssueOpaqueToken: a random token that nobody has had yet.
Make(k, r) ==
  /\ made[k] = None
  /\ made' = [made EXCEPT ![k] = r]

\* Put: the record is found from now on.
Enter(k) ==
  /\ book[k] = None /\ LiveAt(made[k], clock)
  /\ book' = [book EXCEPT ![k] = made[k]]

Pass == /\ clock < MaxTime /\ clock' = clock + 1
        /\ book' = Drop(book, clock')
        /\ UNCHANGED made

BookNext ==
  \/ \E k \in Token, r \in Record : Make(k, r) /\ UNCHANGED <<book, clock>>
  \/ \E k \in Token : Enter(k) /\ UNCHANGED <<made, clock>>
  \/ Pass

BookSpec == BookInit /\ [][BookNext]_bookVars
=============================================================================
