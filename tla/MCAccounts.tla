----------------------------- MODULE MCAccounts -----------------------------
(***************************************************************************)
(* A small instance of Accounts: three calls of two users, of which one    *)
(* has an account and owns both wallets, one with a key and one with a     *)
(* zkLogin address.  Each of them pays in one transaction.                 *)
(***************************************************************************)
EXTENDS Accounts

CONSTANTS u1, u2, w1, w2, d1, d2

MCOwns == {<<u1, w1>>, <<u1, w2>>}
MCSender == [d \in Digests |-> IF d = d1 THEN w1 ELSE w2]
MCAmount == [d \in Digests |-> 2]
=============================================================================
