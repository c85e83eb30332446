------------------------------ MODULE PublishOnce ------------------------------
(***************************************************************************)
(* What creating an artifact under a shared name promises: it appears      *)
(* whole and at once, nothing that holds the name is ever replaced, an     *)
(* author is told "ok" exactly when the name became his, and "exists" only *)
(* when somebody holds it.  A power loss may take a name away again, as    *)
(* nothing makes the name itself durable.                                  *)
(***************************************************************************)
CONSTANTS Name, Author

VARIABLES
  holder,  (* who holds each name: nobody, a stranger, an author *)
  told     (* what each author was told                          *)

pvars == <<holder, told>>

Free(name) == holder[name] = "nobody"

PInit ==
  /\ holder = [name \in Name |-> "nobody"]
  /\ told = [author \in Author |-> "nothing"]

Tell(author, verdict) ==
  /\ told[author] = "nothing"
  /\ told' = [told EXCEPT ![author] = verdict]

Publish(author, name) ==
  /\ Free(name)
  /\ holder' = [holder EXCEPT ![name] = author]
  /\ Tell(author, "ok")

TurnAway(author, name) ==
  /\ ~Free(name)
  /\ Tell(author, "exists")
  /\ UNCHANGED holder

GiveUp(author) ==
  /\ \E reason \in {"io", "rejected", "changed"} : Tell(author, reason)
  /\ UNCHANGED holder

Occupy(name) ==
  /\ Free(name)
  /\ holder' = [holder EXCEPT ![name] = "stranger"]
  /\ UNCHANGED told

Forget(names) ==
  /\ holder' = [name \in Name |-> IF name \in names THEN "nobody" ELSE holder[name]]
  /\ UNCHANGED told

PNext ==
  \/ \E author \in Author, name \in Name : Publish(author, name) \/ TurnAway(author, name)
  \/ \E author \in Author : GiveUp(author)
  \/ \E name \in Name : Occupy(name)
  \/ \E names \in SUBSET {name \in Name : holder[name] \in Author} : Forget(names)

PSpec == PInit /\ [][PNext]_pvars

=============================================================================
