------------------------ MODULE MCTransactionRegistry ------------------------
(* TransactionRegistry on small sets of threads and transactions. *)
EXTENDS TransactionRegistry, TLC

\* Every transaction may be of any kind.
AnyMode == [t \in Txns |-> {"read", "write", "database"}]

\* With two transactions: one of any kind beside a database transaction.
MixedModes ==
  [t \in Txns |-> IF t = CHOOSE u \in Txns : TRUE THEN {"read", "write", "database"} ELSE {"database"}]

\* Threads and transactions are interchangeable (not used with liveness).
Symmetric == Permutations(Threads) \cup Permutations(Txns)

\* A transaction that has ended and been reported, or was never handed out, takes part in
\* nothing any more: what became of it need not be told apart. Of the history, `shared` matters until
\* one of the events that NoUseAfterFree excludes with it, and `refused` for ReadersCoexist only.
Over(t) ==
  /\ txn[t] # "open" /\ ~Live(t) /\ mode[t] # "none"
  /\ \A th \in Threads : cur[th] # t
Distinct ==
  <<noTls, env, transactions, threads, mapped, lastId, writer,
    [t \in Txns |-> IF Over(t) THEN << >> ELSE <<txn[t], mode[t], owner[t], native[t], id[t]>>],
    overlap, moved, fault, shared \/ overlap \/ noTls \/ moved>>
=============================================================================
