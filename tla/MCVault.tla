------------------------------ MODULE MCVault ------------------------------
EXTENDS Vault, TLC
CONSTANTS f1, f2, e1, e2
MCBackup == [x \in {f1} |-> {e1}]
=============================================================================
