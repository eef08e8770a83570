--------------------------- MODULE DatabaseContract ---------------------------
(***************************************************************************)
(* What an LmdbEnvironment promises about its databases (src/Lmdb): a      *)
(* Database is private to the transaction that opened it; a commit         *)
(* publishes all of a transaction's databases at once, each under a name   *)
(* of its own, an abort none; and what is private or published stays so    *)
(* until it is closed. Nothing comes back.                                 *)
(***************************************************************************)
CONSTANTS Txns, Dbs, Keys

VARIABLES
  opened,   \* the Database objects there have been
  usable,   \* those whose handle is not zero
  private,  \* the databases each transaction has opened and not published
  public,   \* the dictionary: a set of <<key, Database>>
  broken    \* something the code does not survive has happened

vars == <<opened, usable, private, public, broken>>

Init ==
  /\ opened = {} /\ usable = {}
  /\ private = [x \in Txns |-> {}]
  /\ public = {}
  /\ broken = FALSE

\* A transaction opens a database.
Open(x, d) ==
  /\ d \notin opened
  /\ opened' = opened \cup {d}
  /\ usable' = usable \cup {d}
  /\ private' = [private EXCEPT ![x] = @ \cup {d}]
  /\ UNCHANGED public

\* A transaction commits: the dictionary gets all its databases, under keys that are free.
Publish(x, key) ==
  /\ \A d, e \in private[x] : d # e => key[d] # key[e]
  /\ \A d \in private[x] : \A e \in public : e[1] # key[d]
  /\ public' = public \cup {<<key[d], d>> : d \in private[x]}
  /\ private' = [private EXCEPT ![x] = {}]
  /\ UNCHANGED <<opened, usable>>

\* A transaction aborts: none of its databases can be used any more.
Withdraw(x) ==
  /\ usable' = usable \ private[x]
  /\ private' = [private EXCEPT ![x] = {}]
  /\ UNCHANGED <<opened, public>>

\* A database is taken out of service by Dispose or Drop.
Close(d) ==
  /\ usable' = usable \ {d}
  /\ UNCHANGED <<opened, private, public>>

\* A database that is out of service, or goes out of it, is forgotten wherever it is.
Forget(d) ==
  /\ usable' = usable \ {d}
  /\ private' = [x \in Txns |-> private[x] \ {d}]
  /\ public' = {e \in public : e[2] # d}
  /\ UNCHANGED opened

\* The environment is disposed.
Shutdown ==
  /\ usable' = usable \ {e[2] : e \in public}
  /\ public' = {}
  /\ UNCHANGED <<opened, private>>

Promised ==
  \/ \E x \in Txns, d \in Dbs : Open(x, d)
  \/ \E x \in Txns, key \in [Dbs -> Keys] : Publish(x, key)
  \/ \E x \in Txns : Withdraw(x)
  \/ \E d \in Dbs : Close(d) \/ Forget(d)
  \/ Shutdown

\* Nothing is promised once something has gone wrong.
Next == (Promised /\ UNCHANGED broken) \/ broken'

Spec == Init /\ [][Next]_vars
=============================================================================
