----------------------------- MODULE PinnedFile -----------------------------
(***************************************************************************)
(* One configuration file, the editors that change it, and the evidence    *)
(* internal/configsource keeps of the revision it decoded: the open        *)
(* handle, the metadata of handle and path, and a digest of what was read. *)
(*                                                                         *)
(* A file is read in two halves, and an editor may rewrite it in place in  *)
(* two halves too, or rename a new file over the name.  Timestamps are     *)
(* coarse: a rewrite may leave the metadata as it was.                     *)
(***************************************************************************)
EXTENDS Naturals, Sequences

CONSTANTS MaxRevisions  \* bound on the edits

ASSUME RevisionsAssumption == MaxRevisions \in Nat

VARIABLES
  name,      \* the file the path names
  body,      \* halves of each file that ever was
  stamp,     \* size, times, owner and mode of each file
  revision,  \* edits so far
  pin        \* the Snapshot: handle, baseline metadata and bytes; digest = bytes

fileVars == <<name, body, stamp, revision>>

Files == 0..MaxRevisions
Revisions == 0..MaxRevisions
NoPin == [file |-> 0, meta |-> 0, raw |-> <<>>]

PinnedTypeOK ==
  /\ name \in Files /\ revision \in Revisions
  /\ body \in [Files -> Revisions \X Revisions]
  /\ stamp \in [Files -> Revisions]
  /\ pin.file \in Files /\ pin.meta \in Revisions
  /\ pin.raw \in UNION {[1..n -> Revisions] : n \in 0..2}

PinnedInit ==
  /\ name = 0 /\ revision = 0
  /\ body = [f \in Files |-> <<0, 0>>]
  /\ stamp = [f \in Files |-> 0]
  /\ pin = NoPin

-----------------------------------------------------------------------------
(* The reader.                                                             *)

\* openSourceFile and the first stableSourceEvidence.
Open == pin' = [file |-> name, meta |-> stamp[name], raw |-> <<>>]

\* readSourceBytes, half after half.
ReadHalf == pin' = [pin EXCEPT !.raw = Append(@, body[pin.file][Len(@) + 1])]

\* stableSourceEvidence and sameSourceMetadata: handle and path are the same
\* file, and its metadata is that of the baseline.
Evidence == name = pin.file /\ stamp[name] = pin.meta

\* A half read again has the digest it had.
Same(half) == body[pin.file][half] = pin.raw[half]

\* Slip: the digest of the whole is not compared.
RevalidateForgetsDigest == Evidence

\* revalidateSource: evidence, the digest of a second read, evidence again.
RevalidateBegins == Evidence /\ Same(1)
RevalidateEnds == Same(2) /\ Evidence

-----------------------------------------------------------------------------
(* The editors.                                                            *)

\* A new file is renamed over the name.
Replace ==
  /\ revision < MaxRevisions
  /\ revision' = revision + 1
  /\ name' = revision + 1
  /\ body' = [body EXCEPT ![revision + 1] = <<revision + 1, revision + 1>>]
  /\ stamp' = [stamp EXCEPT ![revision + 1] = revision + 1]

\* Some halves are rewritten in place.
Rewrite ==
  /\ revision < MaxRevisions
  /\ revision' = revision + 1
  /\ \E halves \in {{1}, {2}, {1, 2}} :
       body' = [body EXCEPT ![name] =
                  [h \in 1..2 |-> IF h \in halves THEN revision + 1 ELSE @[h]]]
  /\ \/ stamp' = [stamp EXCEPT ![name] = revision + 1]
     \/ UNCHANGED stamp
  /\ UNCHANGED name

Edit == (Replace \/ Rewrite) /\ UNCHANGED pin
=============================================================================
