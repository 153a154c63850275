-------------------------- MODULE MCMnemonicStore --------------------------
(***************************************************************************)
(* Finite instances of MnemonicStore: the header of gen_mnemonic (salt and *)
(* nonce) and the one of gen_mnemonic_fido2 (credential, salt of the key,  *)
(* salt of the password, nonce), lengths and slices as in the scripts.     *)
(***************************************************************************)
EXTENDS MnemonicStore

CONSTANTS u1, u2, u3, d1, d2, d3, d4

GenMnemonic == [len |-> <<16, 12>>, at |-> <<0, 16, 28>>]
Fido2Mnemonic == [len |-> <<57, 32, 16, 12>>, at |-> <<0, 57, 89, 105, 117>>]
Formats == {GenMnemonic, Fido2Mnemonic}

\* Twelve words with the 16 bytes of AES-GCM's tag; words differ in length.
MCCipherLen == [u \in Runs |-> IF u = u1 THEN 99 ELSE 87]

\* The credential in the script has 57 bytes.  Two devices make such, one makes
\* a longer and one a shorter credential.
MCIdLen == [d \in Devices |-> IF d \in {d1, d2} THEN 57 ELSE IF d = d3 THEN 64 ELSE 48]
=============================================================================
