--------------------------- MODULE MCWalletReader ---------------------------
(* The instances of WalletReader.                                          *)
EXTENDS WalletReader, MCForks
=============================================================================
