------------------------------ MODULE MCBuilder ------------------------------
(***************************************************************************)
(* Builder over the stack of a verifier: two inputs and a proof.           *)
(***************************************************************************)
EXTENDS Builder

MCBase == <<"proof", "digest", "nonce">>

MCInputs == <<"a">>

\* OP_DROP; OP_HASH256, OP_SHA256; OP_SIZE, OP_DEPTH, OP_OVER; OP_EQUALVERIFY;
\* OP_CAT, OP_ADD, OP_NIP; OP_SWAP.  OP_SUBSTR acts as two of OP_CAT.
MCOpcodes == {<<1, 0>>, <<1, 1>>, <<0, 1>>, <<2, 0>>, <<2, 1>>, <<2, 2>>}

=============================================================================
