------------------------------ MODULE MCReader ------------------------------
(* A database with a named store, two records in it and one of a store     *)
(* without a name; the first file is the last one with a one-digit name.   *)
EXTENDS MirroredStore

Put(key, value) == [type |-> "op", op |-> 1, key |-> key, value |-> <<value>>]
Delete(key) == [type |-> "op", op |-> 0, key |-> key, value |-> <<>>]

DbName == <<0, 0, 0, 201, 7>>
StoreName == <<1, 0, 0, 50, 2, 0>>
StoreKeyPath == <<1, 0, 0, 50, 2, 1>>
A == <<1, 2, 1, 5>>
B == <<1, 2, 1, 6>>
OfIndex == <<1, 2, 2, 5>>
C == <<1, 3, 1, 5>>

MCOpening == <<Put(DbName, 1), Put(StoreName, 8), Put(StoreKeyPath, 9), Put(A, 1)>>

MCBatches ==
    { <<Put(C, 1), Put(A, 2)>>,
      <<Delete(A), Put(OfIndex, 1), Put(B, 1)>> }
=============================================================================
