----------------------------- MODULE ChipRead -----------------------------
(***************************************************************************)
(* readNFCChip of the SDK (sdk/src/nfc/nfc_reader.ts): every tap of a      *)
(* document starts two readEF at once, one for DG1 and one for SOD, over   *)
(* the one connection to the chip.  A chip has one selected file, and what *)
(* READ BINARY returns is of that one.  A file is counted in the chunks    *)
(* that one READ BINARY takes; a chunk is named by the file it is of.      *)
(***************************************************************************)
EXTENDS Naturals, Sequences

CONSTANTS Taps,     \* the times the document may be held to the phone
          Chunks    \* the length of each file

Files == {"dg1", "sod"}

ASSUME ChipAssumption == Chunks \in [Files -> Nat]

VARIABLES currentFile, \* the chip's current file
          ef,       \* the readEF of each tap and file
          chipNeedsBac,
          outcome,  \* of the promise readNFCChip returned
          mixed     \* history: reads during which another one selected its file

varsChip == <<currentFile, ef, chipNeedsBac, outcome, mixed>>

Reads == Taps \X Files
Idle == [at |-> "idle", want |-> 0, got |-> <<>>]

(* A promise is settled once.                                              *)
SettleOnce(o) == IF outcome = "pending" THEN o ELSE outcome

-----------------------------------------------------------------------------
(* The "reading" event; a chip that is powered again has no current file.  *)
Tap(t) == /\ \A f \in Files : ef[<<t, f>>].at = "idle"
          /\ ef' = [r \in Reads |-> IF r[1] = t THEN [Idle EXCEPT !.at = "select"] ELSE ef[r]]
          /\ currentFile' = "none"
          /\ mixed' = mixed \cup {r \in Reads : ef[r].at \in {"header", "chunks"}}
          /\ UNCHANGED <<chipNeedsBac, outcome>>

(* transceive is not offered, scan() is refused, a "readingerror", abort.  *)
Reject == /\ outcome' = SettleOnce("rejected")
          /\ UNCHANGED <<currentFile, ef, chipNeedsBac, mixed>>

Stop(r, reason) == /\ ef' = [ef EXCEPT ![r].at = "stopped"]
                   /\ outcome' = SettleOnce(reason)

(* SELECT FILE, which the chip may refuse.                                 *)
SelectFile(r) ==
    /\ ef[r].at = "select"
    /\ IF chipNeedsBac
       THEN Stop(r, "bac_required") /\ UNCHANGED <<currentFile, mixed>>
       ELSE \/ Stop(r, "read_failed") /\ UNCHANGED <<currentFile, mixed>>
            \/ /\ currentFile' = r[2] /\ ef' = [ef EXCEPT ![r].at = "header"]
               /\ mixed' = mixed \cup {q \in Reads \ {r} : ef[q].at \in {"header", "chunks"}}
               /\ UNCHANGED outcome
    /\ UNCHANGED chipNeedsBac

(* The first eight bytes, for the length of whatever file is current.      *)
ReadHeader(r) ==
    /\ ef[r].at = "header"
    /\ IF currentFile = "none" THEN Stop(r, "read_failed")
       ELSE /\ ef' = [ef EXCEPT ![r].at = "chunks", ![r].want = Chunks[currentFile]]
            /\ UNCHANGED outcome
    /\ UNCHANGED <<currentFile, chipNeedsBac, mixed>>

LastChunk_OneEarly(read) == Len(read.got) + 2 >= read.want

(* The end of the loop over the offsets, after one more chunk.             *)
LastChunk(read) == Len(read.got) + 1 >= read.want

BothDone(t) == \A f \in Files : ef'[<<t, f>>].at = "done"

(* READ BINARY at the next offset; a chip refuses an offset past the end.  *)
ReadChunk(r) ==
    /\ ef[r].at = "chunks"
    /\ IF currentFile = "none" \/ Len(ef[r].got) >= Chunks[currentFile]
       THEN Stop(r, "read_failed")
       ELSE /\ ef' = [ef EXCEPT ![r] = [at |-> IF LastChunk(@) THEN "done" ELSE "chunks",
                                        want |-> @.want, got |-> Append(@.got, currentFile)]]
            /\ outcome' = IF BothDone(r[1]) THEN SettleOnce("read") ELSE outcome
    /\ UNCHANGED <<currentFile, chipNeedsBac, mixed>>

TagLost_Unhandled(r) == ef' = [ef EXCEPT ![r].at = "stopped"] /\ UNCHANGED outcome

(* transceive throws: the catch of the listener names it tag_lost or not.  *)
TagLost(r) == \E reason \in {"tag_lost", "read_failed"} : Stop(r, reason)

Disconnect(r) == /\ ef[r].at \in {"select", "header", "chunks"} /\ TagLost(r)
                 /\ UNCHANGED <<currentFile, chipNeedsBac, mixed>>

-----------------------------------------------------------------------------
InitChip == /\ currentFile = "none" /\ chipNeedsBac \in BOOLEAN /\ mixed = {}
            /\ ef = [r \in Reads |-> Idle] /\ outcome = "pending"

(* The chip answers every command, or is taken away.                       *)
Exchange == \E r \in Reads : SelectFile(r) \/ ReadHeader(r) \/ ReadChunk(r) \/ Disconnect(r)

NextChip == Reject \/ Exchange \/ \E t \in Taps : Tap(t)

-----------------------------------------------------------------------------
(* The types.                                                              *)
TypeOKChip ==
    /\ currentFile \in Files \cup {"none"} /\ mixed \subseteq Reads
    /\ \A r \in Reads : /\ ef[r].at \in {"idle", "select", "header", "chunks", "stopped", "done"}
                        /\ ef[r].want \in Nat
                        /\ \A i \in 1 .. Len(ef[r].got) : ef[r].got[i] \in Files
    /\ outcome \in {"pending", "read", "rejected", "bac_required", "read_failed", "tag_lost"}

WholeFile(f) == [i \in 1 .. Chunks[f] |-> f]

(* A readEF that no other one came between returned its file from the      *)
(* first chunk to the last, whatever lengths the headers gave the others.  *)
UndisturbedReadIsWhole ==
    \A r \in Reads : ef[r].at = "done" /\ r \notin mixed => ef[r].got = WholeFile(r[2])

(* Once the document was tapped the promise is settled, whoever of the two *)
(* reads fails, and although the other one goes on.                        *)
ReadSettles == (\E r \in Reads : ef[r].at # "idle") ~> outcome # "pending"
=============================================================================
