--------------------------- MODULE MnemonicStore ---------------------------
(***************************************************************************)
(* The encrypted mnemonic file: store_mnemonic and load_mnemonic of        *)
(* gen_mnemonic.py, and their FIDO2 twins in gen_mnemonic_fido2.py, which  *)
(* add an authenticator and a longer header.  The runs are gen_mnemonic    *)
(* (store, then load), encrypt_mnemonic (store) and derive_keys or any     *)
(* other script that signs (load), on one path and in one format.          *)
(*                                                                         *)
(* A byte is the run that drew or encrypted it, its field and its place in *)
(* the field: random bytes of two runs are never equal, but the credential *)
(* is the same whenever the same device made it.  Decryption authenticates *)
(* and yields the mnemonic of a run only from all of that run's fields,    *)
(* each complete, and with the password and device they were made with.    *)
(***************************************************************************)
EXTENDS Naturals, FiniteSets, FiniteSetsExt, Sequences

CONSTANTS Runs,       \* the script runs that use the file
          Passwords,  \* what is typed at a password prompt
          Devices,    \* the FIDO2 authenticators, each with one credential
          IdLen,      \* IdLen[d]: the length of the credential that d creates
          Headers,    \* the formats: the lengths of the fields in front of the
                      \* ciphertext as load takes them, and where it cuts the data
          CipherLen,  \* CipherLen[u]: the ciphertext's, as long as the words are
          MaxActive,  \* bound: how many runs are at work at the same time
          NoFile, NoKey, NoDevice

ASSUME LengthAssumption ==
  /\ \A h \in Headers :
       /\ h.len \in [1 .. 2 -> Nat \ {0}] \/ h.len \in [1 .. 4 -> Nat \ {0}]
       /\ h.at \in Seq(Nat) /\ Len(h.at) = Len(h.len) + 1
       /\ h.at[1] = 0 /\ \A f \in 1 .. Len(h.len) : h.at[f + 1] = h.at[f] + h.len[f]
  /\ CipherLen \in [Runs -> Nat \ {0}] /\ IdLen \in [Devices -> Nat \ {0}]

Byte == (Runs \cup Devices \cup {NoDevice}) \X (1 .. 5) \X Nat

ASSUME RunsAssumption ==
  /\ IsFiniteSet(Runs)
  /\ NoFile \notin Seq(Byte)
  /\ NoKey \notin Passwords \X (Devices \cup {NoDevice})
  /\ NoDevice \notin Devices

VARIABLES header,      \* the format
          credential,  \* the device whose credential the script names
          pc,          \* pc[u]: how far run u has come
          key,         \* key[u]: the password and device u encrypts with
          file,        \* the bytes of the file, or NoFile
          loaded       \* loaded[u]: the run whose mnemonic u decrypted

vars == <<header, credential, pc, key, file, loaded>>

Nothing == ""    \* load_mnemonic's result when decryption fails
Fido2 == Len(header.len) = 4    \* with the credential in front
Fields == 1 .. Len(header.len) + 1
Bytes(by, f, len) == [i \in 1 .. len |-> <<by, f, i>>]

\* The salts and the nonce have the lengths that load takes; the credential is
\* written as long as its device made it.
FieldLen(u, f) ==
  IF Fido2 /\ f = 1 THEN IdLen[key[u][2]]
  ELSE IF f + 1 \in Fields THEN header.len[f] ELSE CipherLen[u]
Field(u, f) == Bytes(IF Fido2 /\ f = 1 THEN key[u][2] ELSE u, f, FieldLen(u, f))

\* credential_id + fido2_salt + password_salt + nonce + ciphertext, or
\* salt + nonce + ciphertext
Blob(u) ==
  IF Fido2 THEN Field(u, 1) \o Field(u, 2) \o Field(u, 3) \o Field(u, 4) \o Field(u, 5)
           ELSE Field(u, 1) \o Field(u, 2) \o Field(u, 3)

\* What follows the existence check.
First == IF Fido2 THEN "connecting" ELSE "prompting"
-----------------------------------------------------------------------------
(***************************************************************************)
(* Mutated forms of the definitions below.                                 *)
(***************************************************************************)
\* The ciphertext is taken to start one byte early.
SliceEarly(data, f) ==
  IF f + 1 \in Fields
  THEN SubSeq(data, header.at[f] + 1, Min({header.at[f + 1], Len(data)}))
  ELSE SubSeq(data, header.at[f], Len(data))

\* Only the salt and the ciphertext are written.
WriteWithoutNonce(u) ==
  /\ pc[u] = "truncated"
  /\ file' = Field(u, 1) \o Field(u, Len(header.len) + 1)
  /\ pc' = [pc EXCEPT ![u] = "stored"]
  /\ UNCHANGED <<header, credential, key, loaded>>

\* The file is created first, and the rest is asked for afterwards.
StartCreating(u) ==
  /\ pc[u] = "idle"
  /\ IF file = NoFile
     THEN pc' = [pc EXCEPT ![u] = First] /\ file' = <<>>
     ELSE pc' = [pc EXCEPT ![u] = "refused"] /\ UNCHANGED file
  /\ UNCHANGED <<header, credential, key, loaded>>
-----------------------------------------------------------------------------
\* data[:16], data[16:28], data[28:]: a slice ends where the data ends.
Slice(data, f) ==
  IF f + 1 \in Fields
  THEN SubSeq(data, header.at[f] + 1, Min({header.at[f + 1], Len(data)}))
  ELSE SubSeq(data, header.at[f] + 1, Len(data))

\* The device is asked for the credential that the script names instead of
\* the one in the file.
DecryptedByScript(data, p, d) ==
  {u \in Runs : /\ key[u] = <<p, d>> /\ d \in {credential, NoDevice}
               /\ \A f \in Fields : Slice(data, f) = Field(u, f)}

\* The runs whose mnemonic the bytes give back for a password and a device:
\* a device answers for its own credential only, and with a secret of its own.
Decrypted(data, p, d) ==
  {u \in Runs : key[u] = <<p, d>> /\ \A f \in Fields : Slice(data, f) = Field(u, f)}

Active == {u \in Runs : pc[u] \in {"connecting", "prompting", "encrypted", "truncated"}}

Init ==
  /\ header \in Headers
  /\ credential \in IF Fido2 THEN Devices ELSE {NoDevice}
  /\ pc = [u \in Runs |-> "idle"]
  /\ key = [u \in Runs |-> NoKey]
  /\ file = NoFile
  /\ loaded = [u \in Runs |-> Nothing]

\* store_mnemonic: an existing file is refused.
store_mnemonic(u) ==
  /\ pc[u] = "idle"
  /\ IF file = NoFile
     THEN pc' = [pc EXCEPT ![u] = First]
     ELSE pc' = [pc EXCEPT ![u] = "refused"]
  /\ UNCHANGED <<header, credential, key, file, loaded>>

\* create_credential_fido2, run once or again, on any device: its user puts
\* the new credential, of whatever length, into the script.
create_credential(d) ==
  /\ Fido2 /\ Active = {} /\ d # credential
  /\ credential' = d
  /\ UNCHANGED <<header, pc, key, file, loaded>>

\* The first device that is found is asked for the secret of the credential;
\* without a device, or from one that does not know it, this raises.
get_assertion(u) ==
  /\ pc[u] = "connecting"
  /\ \E d \in Devices \cup {NoDevice} :
       pc' = [pc EXCEPT ![u] = IF d = credential THEN "prompting" ELSE "died"]
  /\ UNCHANGED <<header, credential, key, file, loaded>>

\* The password is typed, once, and the mnemonic encrypted under it and, with
\* FIDO2, the secret.
encrypt(u) ==
  /\ pc[u] = "prompting"
  /\ \E p \in Passwords : key' = [key EXCEPT ![u] = <<p, credential>>]
  /\ pc' = [pc EXCEPT ![u] = "encrypted"]
  /\ UNCHANGED <<header, credential, file, loaded>>

\* open(file_path, "wb") creates the file or truncates it.
open(u) ==
  /\ pc[u] = "encrypted"
  /\ file' = <<>>
  /\ pc' = [pc EXCEPT ![u] = "truncated"]
  /\ UNCHANGED <<header, credential, key, loaded>>

\* The buffered bytes reach the file at offset 0 when the with block closes
\* it; what another writer left behind their end stays.
write(u) ==
  /\ pc[u] = "truncated"
  /\ file' = Blob(u) \o SubSeq(file, Len(Blob(u)) + 1, Len(file))
  /\ pc' = [pc EXCEPT ![u] = "stored"]
  /\ UNCHANGED <<header, credential, key, loaded>>

\* load_mnemonic, after a store or in a script of its own, gives nothing for
\* the wrong password; without a file or, with FIDO2, without the device it
\* raises, and the script has nothing either.
load_mnemonic(u) ==
  /\ pc[u] \in {"idle", "stored"}
  /\ file # NoFile
  /\ \E p \in Passwords, d \in IF Fido2 THEN Devices ELSE {NoDevice} :
       loaded' = [loaded EXCEPT ![u] =
         IF Decrypted(file, p, d) = {} THEN Nothing ELSE CHOOSE w \in Decrypted(file, p, d) : TRUE]
  /\ pc' = [pc EXCEPT ![u] = "loaded"]
  /\ UNCHANGED <<header, credential, key, file>>

\* load_private_key and load_multiple_private_keys, in the scripts that sign:
\* no seed is generated from nothing, which raises.  They use gen_mnemonic's
\* load, and no script derives keys from a FIDO2 file.
generate_bip44_account(u) ==
  /\ pc[u] = "loaded" /\ ~Fido2
  /\ pc' = [pc EXCEPT ![u] = IF loaded[u] = Nothing THEN "died" ELSE "signing"]
  /\ UNCHANGED <<header, credential, key, file, loaded>>

\* The run is interrupted at a prompt, killed, or left with an exception.
die(u) ==
  /\ u \in Active
  /\ pc' = [pc EXCEPT ![u] = IF @ = "truncated" THEN "died_writing" ELSE "died"]
  /\ UNCHANGED <<header, credential, key, file, loaded>>

Start(u) == Cardinality(Active) < MaxActive /\ store_mnemonic(u)

Next == \/ \E u \in Runs : \/ Start(u) \/ get_assertion(u) \/ encrypt(u) \/ open(u)
                           \/ write(u) \/ load_mnemonic(u) \/ generate_bip44_account(u)
                           \/ die(u)
        \/ \E d \in Devices : create_credential(d)

Spec == Init /\ [][Next]_vars
-----------------------------------------------------------------------------
\* The mnemonic of u can be read back with the password u was given and the
\* device u was run with.
Readable(u) == file # NoFile /\ key[u] # NoKey /\ u \in Decrypted(file, key[u][1], key[u][2])

\* The variables have their types, and who signs has a mnemonic.
TypeOK ==
  /\ header \in Headers /\ credential \in Devices \cup {NoDevice}
  /\ pc \in [Runs -> {"idle", "connecting", "prompting", "encrypted", "truncated", "stored",
                      "loaded", "signing", "refused", "died", "died_writing"}]
  /\ key \in [Runs -> (Passwords \X (Devices \cup {NoDevice})) \cup {NoKey}]
  /\ file = NoFile \/ file = <<>> \/ \E u \in Runs : key[u] # NoKey /\ Len(file) = Len(Blob(u))
  /\ loaded \in [Runs -> Runs \cup {Nothing}]
  /\ \A u \in Runs : pc[u] = "signing" => loaded[u] # Nothing

\* The run has a key of a device whose credential is not as long as what load
\* takes for it.
Misfit(u) == Fido2 /\ key[u] # NoKey /\ IdLen[key[u][2]] # header.len[1]

\* "Mnemonic encrypted and stored" is true when it is printed, and stays true,
\* exactly if the credential has the length at which load cuts: all the other
\* fields agree, and no other run writes over the file.  With another length
\* the file is there and nothing ever reads it.
StoredIfFits == \A u \in Runs : pc[u] = "stored" => (Readable(u) <=> ~Misfit(u))

\* No step of any run takes away a mnemonic that the file gives back - "The
\* file already exists. Choose a different file path." - and neither does a
\* new credential in the script, as the file keeps its own.
NothingLost == [][\A u \in Runs : Readable(u) => Readable(u)']_vars

\* A file that gives nothing back is one that its run is still writing or
\* died writing, or one that was written whole with a credential of another
\* length: a run that ends at the prompt leaves no file.
UnreadableExplained ==
  file # NoFile =>
    \E u \in Runs : \/ Readable(u) \/ pc[u] \in {"truncated", "died_writing"}
                    \/ Misfit(u) /\ file = Blob(u)
=============================================================================
