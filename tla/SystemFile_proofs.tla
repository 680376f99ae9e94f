-------------------------- MODULE SystemFile_proofs --------------------------
(***************************************************************************)
(* Proofs about the saves of system files, for any number of uploads of    *)
(* any length, every file name and every set of faults.                    *)
(***************************************************************************)
EXTENDS SystemFile, FiniteSetTheorems, TLAPS

Active == {u \in Uploads : phase[u] = "sending"}
Aborted == {u \in Uploads : phase[u] = "aborted"}

SaveTypes ==
  /\ saving \in BOOLEAN
  /\ stored = [f \in DOMAIN stored |-> stored[f]]
  /\ sent \in [Uploads -> 0 .. Pieces]
  /\ phase \in [Uploads -> {"waiting", "sending", "saved", "aborted"}]
  /\ failed \subseteq Uploads
  /\ \A u \in Uploads : phase[u] = "waiting" => sent[u] = 0
  /\ \A u \in Active : sent[u] \in 1 .. Pieces - 1

\* Uploads that overlap are counted as failed.
OverlapIsCounted == \A u, v \in Active : u # v => u \in failed

\* The flag of an upload that did not fail is its own: the file holds what came.
Prefix(u, n) == [i \in 1 .. n |-> <<u, i>>]
Stores(u) ==
  /\ file = FileOf[u] /\ file \in DOMAIN stored
  /\ stored[file] = Prefix(u, sent[u])
FlagIsOwn == \A u \in Active \ failed : saving => Stores(u)

\* Only answered uploads are lost.
LostAreAnswered == lost \subseteq {u \in Uploads : phase[u] = "saved"}

\* A save is going to be lost without a fault of its own: the flag was left set
\* with nobody sending, or was cleared under the one who is.
Doomed == \E u \in Active \ failed : ~saving
Owing == (saving /\ Active = {}) \/ Doomed

\* Each such loss has an upload that was cut off, the one to come included.
EachHasItsAbort ==
  Cardinality(lost \ failed) + (IF Owing THEN 1 ELSE 0) <= Cardinality(Aborted)

IInv ==
  /\ SaveTypes /\ OverlapIsCounted /\ FlagIsOwn /\ LostAreAnswered
  /\ EachHasItsAbort

-----------------------------------------------------------------------------
(* The three modes of save_systemfile.                                     *)

LEMMA StartDoes ==
  ASSUME SaveTypes, NEW u \in Uploads, NEW ok \in BOOLEAN
  PROVE  LET s == Start(Saver, u, ok)
         IN  /\ s = [saving |-> s.saving, file |-> s.file, stored |-> s.stored]
             /\ s.saving = (~saving /\ ok)
             /\ s.saving => /\ s.file = FileOf[u] /\ FileOf[u] \in DOMAIN s.stored
                            /\ s.stored[FileOf[u]] = <<>>
             /\ s.stored = [f \in DOMAIN s.stored |-> s.stored[f]]
<1>1. CASE saving
  BY <1>1 DEF Start, Saver, SaveTypes
<1>2. CASE ~saving /\ ok
  BY <1>2 DEF Start, Saver, Truncated, SaveTypes
<1>3. CASE ~saving /\ ~ok
  BY <1>3 DEF Start, Saver, SaveTypes
<1> QED
  BY <1>1, <1>2, <1>3

\* What the modes pass on: the flag, the file and what is stored.
IsSave(b) ==
  /\ b = [saving |-> b.saving, file |-> b.file, stored |-> b.stored] /\ b.saving \in BOOLEAN
  /\ b.stored = [g \in DOMAIN b.stored |-> b.stored[g]]

\* What a piece does to it.
IsChunk(b, u, i, ok, s) ==
  /\ s = [saving |-> s.saving, file |-> s.file, stored |-> s.stored]
  /\ s.saving = (b.saving /\ ok) /\ s.file = b.file
  /\ s.stored = [g \in DOMAIN s.stored |-> s.stored[g]]
  /\ DOMAIN s.stored = DOMAIN b.stored
  /\ b.saving /\ ok /\ b.file \in DOMAIN b.stored
       => s.stored[b.file] = Append(b.stored[b.file], <<u, i>>)

LEMMA ChunkDoes ==
  ASSUME NEW b, NEW u, NEW i, NEW ok \in BOOLEAN, NEW s, s = Chunk(b, u, i, ok), IsSave(b)
  PROVE  IsChunk(b, u, i, ok, s)
<1>1. CASE ~b.saving
  BY <1>1 DEF Chunk, IsSave, IsChunk
<1>2. CASE b.saving /\ ok
  BY <1>2 DEF Chunk, IsSave, IsChunk
<1>3. CASE b.saving /\ ~ok
  BY <1>3 DEF Chunk, IsSave, IsChunk
<1> QED
  BY <1>1, <1>2, <1>3

LEMMA PrefixGrows ==
  ASSUME NEW u, NEW n \in Nat
  PROVE  Append(Prefix(u, n), <<u, n + 1>>) = Prefix(u, n + 1)
BY DEF Prefix

-----------------------------------------------------------------------------
(* One call of the body handler, seen from what the save's books need.     *)

BodyKeepsTypes(u, last) ==
  /\ saving' \in BOOLEAN /\ stored' = [f \in DOMAIN stored' |-> stored'[f]]
  /\ sent' = [sent EXCEPT ![u] = @ + 1]
  /\ phase' = [phase EXCEPT ![u] = IF last THEN "saved" ELSE "sending"]
  /\ failed \subseteq failed' /\ failed' \subseteq Uploads
  /\ lost' = lost \/ (last /\ lost' = lost \cup {u})
  /\ last => ~saving'
  /\ Others(u) # {} => Others(u) \cup {u} \subseteq failed'

\* Of an upload that is alone and does not fail: with the flag its file holds
\* what came; without it the loss was owed before.
AloneIsWhole(u, last) ==
  Others(u) = {} /\ u \notin failed' =>
    /\ ~last /\ saving' => Stores(u)'
    /\ ~last /\ ~saving' => Owing
    /\ lost' # lost => Owing

LEMMA BodySummary ==
  ASSUME IInv, NEW u \in Uploads, Body(u)
  PROVE  LET last == sent[u] + 1 = Pieces
         IN  BodyKeepsTypes(u, last) /\ AloneIsWhole(u, last)
<1> DEFINE i == sent[u] + 1
           last == i = Pieces
<1>0. SaveTypes
  BY DEF IInv
<1>1. PICK opened \in {TRUE} \cup {"open" \notin Faults},
           written \in {TRUE} \cup {"write" \notin Faults} :
        LET begun == IF i = 1 THEN Start(Saver, u, opened) ELSE Saver
            filled == Chunk(begun, u, i, written)
            ended == IF last THEN End(filled) ELSE filled
        IN  /\ saving' = ended.saving /\ file' = ended.file
            /\ stored' = ended.stored
            /\ sent' = [sent EXCEPT ![u] = i]
            /\ phase' = [phase EXCEPT ![u] = IF last THEN "saved" ELSE "sending"]
            /\ lost' = IF last /\ Content(ended.stored, FileOf[u]) # Whole(u)
                       THEN lost \cup {u} ELSE lost
            /\ failed' = failed
                 \cup (IF Others(u) = {} THEN {} ELSE Others(u) \cup {u})
                 \cup (IF (i = 1 /\ ~saving /\ ~opened) \/ (begun.saving /\ ~written)
                       THEN {u} ELSE {})
  BY ZenonT(60) DEF Body
<1> opened \in BOOLEAN /\ written \in BOOLEAN
  OBVIOUS
<1> DEFINE b == IF i = 1 THEN Start(Saver, u, opened) ELSE Saver
           s == Chunk(b, u, i, written)
           e == IF last THEN End(s) ELSE s
<1>2. /\ i \in Nat /\ Pieces \in Nat /\ Pieces > 1
      /\ phase[u] \in {"waiting", "sending"}
      /\ phase[u] = "waiting" => i = 1
      /\ phase[u] = "sending" => u \in Active /\ i # 1
  BY <1>0, PiecesAssumption DEF SaveTypes, Body, Active
<1>3. /\ b = [saving |-> b.saving, file |-> b.file, stored |-> b.stored]
      /\ b.stored = [f \in DOMAIN b.stored |-> b.stored[f]]
      /\ b.saving \in BOOLEAN
      /\ i = 1 => b.saving = (~saving /\ opened)
      /\ i # 1 => b = Saver
      /\ i = 1 /\ b.saving => /\ b.file = FileOf[u] /\ FileOf[u] \in DOMAIN b.stored
                              /\ b.stored[FileOf[u]] = <<>>
  <2>1. CASE i = 1
    <3>1. b = Start(Saver, u, opened)
      BY <2>1
    <3> HIDE DEF b
    <3> QED
      BY <1>0, <2>1, <3>1, StartDoes, ZenonT(60) DEF SaveTypes
  <2>2. CASE i # 1
    <3>1. b = Saver
      BY <2>2
    <3> HIDE DEF b
    <3> QED
      BY <1>0, <2>2, <3>1 DEF Saver, SaveTypes
  <2> QED
    BY <2>1, <2>2
<1>4. s = Chunk(b, u, i, written)
  OBVIOUS
<1>5. e = IF last THEN End(s) ELSE s
  OBVIOUS
<1>6. /\ saving' = e.saving /\ file' = e.file /\ stored' = e.stored
      /\ lost' = IF last /\ Content(e.stored, FileOf[u]) # Whole(u)
                 THEN lost \cup {u} ELSE lost
      /\ failed' = failed
             \cup (IF Others(u) = {} THEN {} ELSE Others(u) \cup {u})
             \cup (IF (i = 1 /\ ~saving /\ ~opened) \/ (b.saving /\ ~written)
                   THEN {u} ELSE {})
  BY <1>1
<1> HIDE DEF b, s, e
<1>7. /\ s = [saving |-> s.saving, file |-> s.file, stored |-> s.stored]
      /\ s.saving = (b.saving /\ written) /\ s.file = b.file
      /\ s.stored = [g \in DOMAIN s.stored |-> s.stored[g]]
      /\ DOMAIN s.stored = DOMAIN b.stored
      /\ b.saving /\ written /\ b.file \in DOMAIN b.stored
           => s.stored[b.file] = Append(b.stored[b.file], <<u, i>>)
  <2>1. IsSave(b)
    BY <1>3 DEF IsSave
  <2>2. IsChunk(b, u, i, written, s)
    BY <1>4, <2>1, ChunkDoes
  <2> QED
    BY <2>2 DEF IsChunk
<1>8. /\ last => e.saving = FALSE /\ e.stored = s.stored
      /\ ~last => e = s
  <2>1. s.saving \in BOOLEAN
    BY <1>3, <1>7
  <2>2. s = [saving |-> s.saving, file |-> s.file, stored |-> s.stored]
    BY <1>7
  <2>3. End(s).saving = FALSE /\ End(s).stored = s.stored
    BY <2>1, <2>2, SMTT(30) DEF End
  <2> QED
    BY <1>5, <2>3
<1>9. BodyKeepsTypes(u, last)
  <2>1. saving' \in BOOLEAN /\ stored' = [f \in DOMAIN stored' |-> stored'[f]]
        /\ (last => ~saving')
    BY <1>3, <1>6, <1>7, <1>8
  <2>2. failed \subseteq failed' /\ failed' \subseteq Uploads
        /\ (Others(u) # {} => Others(u) \cup {u} \subseteq failed')
    BY <1>0, <1>6 DEF Others, SaveTypes
  <2>3. lost' = lost \/ (last /\ lost' = lost \cup {u})
    BY <1>6
  <2> QED
    BY <1>1, <2>1, <2>2, <2>3 DEF BodyKeepsTypes
<1>10. AloneIsWhole(u, last)
  <2> SUFFICES ASSUME Others(u) = {}, u \notin failed'
               PROVE  /\ ~last /\ saving' => Stores(u)'
                      /\ ~last /\ ~saving' => Owing
                      /\ lost' # lost => Owing
    BY DEF AloneIsWhole
  <2>1. /\ u \notin failed
        /\ i = 1 /\ ~saving => opened
        /\ b.saving => written
    BY <1>6
  <2>2. CASE b.saving
    <3>1. /\ b.file = FileOf[u] /\ FileOf[u] \in DOMAIN b.stored
          /\ b.stored[FileOf[u]] = Prefix(u, sent[u])
      <4>1. CASE i = 1
        <5>1. sent[u] = 0
          BY <1>0, <4>1 DEF SaveTypes
        <5>2. Prefix(u, 0) = <<>>
          BY DEF Prefix
        <5> QED
          BY <1>3, <2>2, <4>1, <5>1, <5>2
      <4>2. CASE i # 1
        <5>1. b = Saver /\ u \in Active
          BY <1>2, <1>3, <4>2
        <5>2. saving /\ Stores(u)
          BY <2>1, <2>2, <5>1 DEF IInv, FlagIsOwn, Saver
        <5> QED
          BY <5>1, <5>2 DEF Saver, Stores
      <4> QED
        BY <4>1, <4>2
    <3>2. /\ s.saving /\ s.file = FileOf[u] /\ FileOf[u] \in DOMAIN s.stored
          /\ s.stored[FileOf[u]] = Prefix(u, i)
      <4>1. s.stored[FileOf[u]] = Append(Prefix(u, sent[u]), <<u, i>>)
        BY <1>7, <2>1, <2>2, <3>1
      <4>2. sent[u] \in Nat
        BY <1>0 DEF SaveTypes
      <4> QED
        BY <1>7, <2>1, <2>2, <3>1, <4>1, <4>2, PrefixGrows
    <3>3. ~last => saving' /\ Stores(u)'
      <4> SUFFICES ASSUME ~last PROVE saving' /\ Stores(u)'
        OBVIOUS
      <4>1. saving' = s.saving /\ file' = s.file /\ stored' = s.stored
        BY <1>6, <1>8
      <4>2. sent'[u] = i
        BY <1>0, <1>1 DEF SaveTypes
      <4> QED
        BY <3>2, <4>1, <4>2 DEF Stores
    <3>4. lost' = lost
      <4>1. last => Prefix(u, i) = Whole(u)
        BY DEF Prefix, Whole
      <4>2. last => Content(e.stored, FileOf[u]) = Whole(u)
        BY <1>8, <3>2, <4>1 DEF Content
      <4> QED
        BY <1>6, <4>2
    <3> QED
      BY <3>3, <3>4
  <2>3. CASE ~b.saving
    <3>1. ~last => ~saving'
      BY <1>6, <1>7, <1>8, <2>3
    <3>2. Owing
      <4>1. CASE i = 1
        <5>1. saving
          BY <1>3, <2>1, <2>3, <4>1 DEF IInv, SaveTypes
        <5>2. u \notin Active
          BY <1>2, <4>1 DEF Active
        <5>3. Active = {}
          BY <5>2 DEF Active, Others
        <5> QED
          BY <5>1, <5>3 DEF Owing
      <4>2. CASE i # 1
        <5>1. u \in Active \ failed /\ ~saving
          BY <1>2, <1>3, <2>1, <2>3, <4>2 DEF Saver
        <5> QED
          BY <5>1 DEF Owing, Doomed
      <4> QED
        BY <4>1, <4>2
    <3> QED
      BY <3>1, <3>2
  <2> QED
    BY <1>3, <2>2, <2>3
<1> QED
  BY <1>9, <1>10

-----------------------------------------------------------------------------
(* The books.                                                              *)

LEMMA Finite ==
  /\ \A S : S \subseteq Uploads => IsFiniteSet(S) /\ Cardinality(S) \in Nat
  /\ \A S, T : S \subseteq T /\ T \subseteq Uploads => Cardinality(S) <= Cardinality(T)
<1>1. ASSUME NEW S, S \subseteq Uploads PROVE IsFiniteSet(S) /\ Cardinality(S) \in Nat
  BY <1>1, UploadsAssumption, FS_Subset, FS_CardinalityType
<1>2. ASSUME NEW S, NEW T, S \subseteq T, T \subseteq Uploads
      PROVE  Cardinality(S) <= Cardinality(T)
  BY <1>1, <1>2, FS_Subset
<1> QED
  BY <1>1, <1>2

LEMMA InvInit == Init => IInv
<1> SUFFICES ASSUME Init PROVE IInv
  OBVIOUS
<1>1. Active = {} /\ Aborted = {} /\ lost = {} /\ failed = {} /\ saving = FALSE
  BY DEF Init, Active, Aborted
<1>2. SaveTypes
  <2>1. stored = [f \in DOMAIN stored |-> stored[f]]
    BY DEF Init
  <2>2. sent \in [Uploads -> 0 .. Pieces] /\ \A u \in Uploads : sent[u] = 0
    <3>1. 0 \in 0 .. Pieces
      BY PiecesAssumption
    <3> QED
      BY <3>1 DEF Init
  <2>3. phase \in [Uploads -> {"waiting", "sending", "saved", "aborted"}]
    BY DEF Init
  <2>4. \A u \in Uploads : phase[u] = "waiting"
    BY DEF Init
  <2> QED
    BY <1>1, <2>1, <2>2, <2>3, <2>4 DEF SaveTypes
<1>3. EachHasItsAbort
  BY <1>1, Finite DEF EachHasItsAbort, Owing, Doomed
<1> QED
  BY <1>1, <1>2, <1>3 DEF IInv, OverlapIsCounted, FlagIsOwn, LostAreAnswered

\* A piece of a body: whoever overlaps is counted as failed; whoever is alone
\* has his file, or was already owed for.
LEMMA BodyKeepsInv ==
  ASSUME IInv, NEW u \in Uploads, Body(u)
  PROVE  IInv'
<1> DEFINE last == sent[u] + 1 = Pieces
<1>1. BodyKeepsTypes(u, last) /\ AloneIsWhole(u, last)
  BY BodySummary
<1>2. SaveTypes /\ phase[u] \in {"waiting", "sending"} /\ Pieces \in Nat /\ Pieces > 1
  BY PiecesAssumption DEF IInv, Body
<1>3. sent[u] \in 0 .. Pieces - 1
  BY <1>2 DEF SaveTypes, Active
<1> HIDE DEF last
<1>4. /\ Active' = IF last THEN Others(u) ELSE Others(u) \cup {u}
      /\ Aborted' = Aborted
      /\ u \notin Others(u) /\ Others(u) = Active \ {u}
  BY <1>1, <1>2 DEF BodyKeepsTypes, Active, Aborted, Others, SaveTypes
<1>5. SaveTypes'
  <2>1. sent' \in [Uploads -> 0 .. Pieces]
    BY <1>1, <1>2, <1>3 DEF BodyKeepsTypes, SaveTypes
  <2>2. phase' \in [Uploads -> {"waiting", "sending", "saved", "aborted"}]
    BY <1>1, <1>2 DEF BodyKeepsTypes, SaveTypes
  <2>3. \A v \in Uploads : phase'[v] = "waiting" => sent'[v] = 0
    BY <1>1, <1>2 DEF BodyKeepsTypes, SaveTypes
  <2>4. \A v \in Active' : sent'[v] \in 1 .. Pieces - 1
    BY <1>1, <1>2, <1>3, <1>4 DEF BodyKeepsTypes, SaveTypes, last
  <2> QED
    BY <1>1, <2>1, <2>2, <2>3, <2>4 DEF BodyKeepsTypes, SaveTypes
<1>6. OverlapIsCounted'
  BY <1>1, <1>4 DEF IInv, OverlapIsCounted, BodyKeepsTypes
<1>7. FlagIsOwn'
  <2> SUFFICES ASSUME NEW v \in Active', v \notin failed', saving' PROVE Stores(v)'
    BY DEF FlagIsOwn
  <2>1. v = u /\ Others(u) = {} /\ ~last
    BY <1>1, <1>4 DEF BodyKeepsTypes
  <2> QED
    BY <1>1, <2>1 DEF AloneIsWhole
<1>8. LostAreAnswered'
  <2>1. \A v \in lost : v # u /\ phase[v] = "saved"
    BY <1>2 DEF IInv, LostAreAnswered
  <2>2. \A v \in lost' : v \in Uploads /\ phase'[v] = "saved"
    <3>1. \A v \in lost' : v \in lost \/ (v = u /\ last)
      BY <1>1 DEF BodyKeepsTypes
    <3>2. \A v \in lost : v \in Uploads /\ phase'[v] = phase[v]
      BY <1>1, <1>2, <2>1 DEF IInv, LostAreAnswered, BodyKeepsTypes, SaveTypes
    <3>3. last => phase'[u] = "saved"
      BY <1>1, <1>2 DEF BodyKeepsTypes, SaveTypes
    <3> QED
      BY <2>1, <3>1, <3>2, <3>3
  <2> QED
    BY <2>2 DEF LostAreAnswered
<1>9. EachHasItsAbort'
  <2>1. /\ lost \subseteq Uploads /\ lost' \subseteq Uploads /\ Aborted \subseteq Uploads
        /\ failed \subseteq failed'
    BY <1>1 DEF IInv, LostAreAnswered, BodyKeepsTypes, Aborted
  <2>2. /\ Cardinality(lost \ failed) \in Nat /\ Cardinality((lost \ failed)') \in Nat
        /\ Cardinality(Aborted) \in Nat
    BY <2>1, Finite
  <2>3. CASE u \in failed'
    <3>1. (lost \ failed)' \subseteq lost \ failed
      BY <1>1, <2>1, <2>3 DEF BodyKeepsTypes
    <3>2. ~Owing'
      <4>1. ~ (saving' /\ Active' = {})
        BY <1>1, <1>4 DEF BodyKeepsTypes
      <4>2. Active' \subseteq failed'
        BY <1>1, <1>4, <2>3 DEF BodyKeepsTypes
      <4> QED
        BY <4>1, <4>2 DEF Owing, Doomed
    <3>3. Cardinality((lost \ failed)') <= Cardinality(lost \ failed)
      BY <2>1, <3>1, Finite
    <3> QED
      BY <1>4, <2>2, <3>2, <3>3 DEF IInv, EachHasItsAbort
  <2>4. CASE u \notin failed'
    <3>1. Others(u) = {}
      BY <1>1, <2>4 DEF BodyKeepsTypes
    <3>2. CASE last
      <4>1. ~Owing'
        BY <1>1, <1>4, <3>1, <3>2 DEF BodyKeepsTypes, Owing, Doomed
      <4>2. CASE lost' = lost
        <5>1. (lost \ failed)' \subseteq lost \ failed
          BY <2>1, <4>2
        <5>2. Cardinality((lost \ failed)') <= Cardinality(lost \ failed)
          BY <2>1, <5>1, Finite
        <5> QED
          BY <1>4, <2>2, <4>1, <5>2 DEF IInv, EachHasItsAbort
      <4>3. CASE lost' # lost
        <5>1. Owing
          BY <1>1, <2>4, <3>1, <4>3 DEF AloneIsWhole
        <5>2. (lost \ failed)' \subseteq (lost \ failed) \cup {u}
          BY <1>1, <2>1 DEF BodyKeepsTypes
        <5>3. Cardinality((lost \ failed)') <= Cardinality((lost \ failed) \cup {u})
          BY <2>1, <5>2, Finite
        <5>4. Cardinality((lost \ failed) \cup {u}) <= Cardinality(lost \ failed) + 1
          <6>1. IsFiniteSet(lost \ failed)
            BY <2>1, Finite
          <6> QED
            BY <2>2, <6>1, FS_AddElement
        <5>5. Cardinality((lost \ failed) \cup {u}) \in Nat
          BY <2>1, Finite
        <5> QED
          BY <1>4, <2>2, <4>1, <5>1, <5>3, <5>4, <5>5 DEF IInv, EachHasItsAbort
      <4> QED
        BY <4>2, <4>3
    <3>3. CASE ~last
      <4>1. (lost \ failed)' \subseteq lost \ failed
        BY <1>1, <2>1, <3>3 DEF BodyKeepsTypes
      <4>2. Cardinality((lost \ failed)') <= Cardinality(lost \ failed)
        BY <2>1, <4>1, Finite
      <4>3. Owing' => Owing
        <5>1. Owing' => ~saving'
          BY <1>4, <3>3 DEF Owing, Doomed
        <5> QED
          BY <1>1, <2>4, <3>1, <3>3, <5>1 DEF AloneIsWhole
      <4> QED
        BY <1>4, <2>2, <4>2, <4>3 DEF IInv, EachHasItsAbort
    <3> QED
      BY <3>2, <3>3
  <2> QED
    BY <2>3, <2>4
<1> QED
  BY <1>5, <1>6, <1>7, <1>8, <1>9 DEF IInv

\* A connection that breaks adds an upload that pays for what it leaves behind.
LEMMA AbortKeepsInv ==
  ASSUME IInv, NEW u \in Uploads, Abort(u)
  PROVE  IInv'
<1>1. /\ phase[u] = "sending" /\ phase' = [phase EXCEPT ![u] = "aborted"]
      /\ UNCHANGED <<saving, file, stored, sent, lost, failed>>
  BY DEF Abort, saveVars
<1>2. SaveTypes
  BY DEF IInv
<1>3. /\ Active' = Active \ {u} /\ Aborted' = Aborted \cup {u}
      /\ u \notin Aborted /\ u \in Active
  BY <1>1, <1>2 DEF SaveTypes, Active, Aborted
<1>4. SaveTypes'
  BY <1>1, <1>2, <1>3 DEF SaveTypes
<1>5. OverlapIsCounted' /\ FlagIsOwn'
  BY <1>1, <1>3 DEF IInv, OverlapIsCounted, FlagIsOwn, Stores
<1>6. LostAreAnswered'
  <2>1. \A v \in lost : v \in Uploads /\ v # u /\ phase[v] = "saved"
    BY <1>1 DEF IInv, LostAreAnswered
  <2>2. \A v \in lost' : v \in Uploads /\ phase'[v] = "saved"
    BY <1>1, <1>2, <2>1 DEF SaveTypes
  <2> QED
    BY <2>2 DEF LostAreAnswered
<1>7. EachHasItsAbort'
  <2>1. Aborted \subseteq Uploads /\ lost \ failed \subseteq Uploads
    BY DEF IInv, LostAreAnswered, Aborted
  <2>2. /\ IsFiniteSet(Aborted) /\ Cardinality(Aborted) \in Nat
        /\ Cardinality(lost \ failed) \in Nat
    BY <2>1, Finite
  <2>3. Cardinality(Aborted') = Cardinality(Aborted) + 1
    BY <1>3, <2>2, FS_AddElement
  <2> QED
    BY <1>1, <2>2, <2>3 DEF IInv, EachHasItsAbort
<1> QED
  BY <1>4, <1>5, <1>6, <1>7 DEF IInv

\* After a power cycle the flag is down and nobody is sending.
LEMMA PowerKeepsInv == IInv /\ PowerCycle => IInv'
<1> SUFFICES ASSUME IInv, PowerCycle PROVE IInv'
  OBVIOUS
<1>1. /\ ~saving' /\ saving' \in BOOLEAN
      /\ phase' = [u \in Uploads |-> IF phase[u] = "sending" THEN "aborted" ELSE phase[u]]
      /\ UNCHANGED <<stored, sent, lost, failed>>
  BY DEF PowerCycle
<1>2. SaveTypes
  BY DEF IInv
<1>3. Active' = {} /\ Aborted \subseteq Aborted'
  BY <1>1, <1>2 DEF SaveTypes, Active, Aborted
<1>4. SaveTypes'
  <2>1. phase' \in [Uploads -> {"waiting", "sending", "saved", "aborted"}]
    BY <1>1, <1>2 DEF SaveTypes
  <2>2. \A u \in Uploads : phase'[u] = "waiting" => sent'[u] = 0
    BY <1>1, <1>2 DEF SaveTypes
  <2> QED
    BY <1>1, <1>2, <1>3, <2>1, <2>2 DEF SaveTypes
<1>5. OverlapIsCounted' /\ FlagIsOwn'
  BY <1>3 DEF OverlapIsCounted, FlagIsOwn
<1>6. LostAreAnswered'
  <2>1. \A v \in lost' : v \in Uploads /\ phase'[v] = "saved"
    BY <1>1 DEF IInv, LostAreAnswered
  <2> QED
    BY <2>1 DEF LostAreAnswered
<1>7. EachHasItsAbort'
  <2>1. Aborted' \subseteq Uploads /\ lost \ failed \subseteq Uploads
    BY DEF IInv, LostAreAnswered, Aborted
  <2>2. /\ Cardinality(Aborted) <= Cardinality(Aborted')
        /\ Cardinality(Aborted) \in Nat /\ Cardinality(Aborted') \in Nat
        /\ Cardinality(lost \ failed) \in Nat
    BY <1>3, <2>1, Finite
  <2>3. ~Owing'
    BY <1>1, <1>3 DEF Owing, Doomed
  <2> QED
    BY <1>1, <2>2, <2>3 DEF IInv, EachHasItsAbort
<1> QED
  BY <1>4, <1>5, <1>6, <1>7 DEF IInv

\* The loader reads the files only.
LEMMA OthersKeepInv ==
  ASSUME IInv, UNCHANGED <<saveVars, clientVars>>
  PROVE  IInv'
BY DEF IInv, SaveTypes, OverlapIsCounted, FlagIsOwn, Stores, LostAreAnswered,
       EachHasItsAbort, Owing, Doomed, Active, Aborted, saveVars, clientVars

\* With the books balanced: of the lost, some failed, and the others are no more
\* than the uploads cut off, none of which is lost.
LEMMA BooksBalance == IInv => OneLostPerFault
<1> SUFFICES ASSUME IInv PROVE OneLostPerFault
  OBVIOUS
<1> DEFINE own == lost \cap failed
           others == lost \ failed
<1>1. /\ own \subseteq failed \ Aborted /\ failed \ Aborted \subseteq Uploads
      /\ others \subseteq Uploads /\ Aborted \subseteq Uploads
  BY DEF IInv, LostAreAnswered, Aborted, SaveTypes
<1>2. /\ IsFiniteSet(own) /\ Cardinality(own) \in Nat
      /\ IsFiniteSet(others) /\ Cardinality(others) \in Nat
      /\ IsFiniteSet(failed \ Aborted) /\ Cardinality(failed \ Aborted) \in Nat
      /\ IsFiniteSet(Aborted) /\ Cardinality(Aborted) \in Nat
  <2>1. own \subseteq Uploads
    BY <1>1
  <2> QED
    BY <1>1, <2>1, Finite
<1>3. Cardinality(own) <= Cardinality(failed \ Aborted)
  BY <1>1, Finite
<1>4. Cardinality(others) <= Cardinality(Aborted)
  BY <1>2 DEF IInv, EachHasItsAbort
<1>5. Cardinality(lost) = Cardinality(own) + Cardinality(others)
  <2>1. lost = own \cup others /\ own \cap others = {}
    OBVIOUS
  <2>2. Cardinality(own \cup others)
          = Cardinality(own) + Cardinality(others) - Cardinality(own \cap others)
    BY <1>2, FS_Union
  <2> HIDE DEF own, others
  <2> QED
    BY <1>2, <2>1, <2>2, FS_EmptySet
<1>6. Cardinality(failed \cup Aborted)
        = Cardinality(failed \ Aborted) + Cardinality(Aborted)
  <2>1. /\ failed \cup Aborted = (failed \ Aborted) \cup Aborted
        /\ (failed \ Aborted) \cap Aborted = {}
    OBVIOUS
  <2>2. Cardinality((failed \ Aborted) \cup Aborted)
          = Cardinality(failed \ Aborted) + Cardinality(Aborted)
              - Cardinality((failed \ Aborted) \cap Aborted)
    BY <1>2, FS_Union
  <2>3. Cardinality((failed \ Aborted) \cap Aborted) = 0
    BY <2>1, FS_EmptySet
  <2>4. Cardinality(failed \cup Aborted) = Cardinality((failed \ Aborted) \cup Aborted)
    BY <2>1
  <2> QED
    BY <1>2, <2>2, <2>3, <2>4
<1> QED
  BY <1>2, <1>3, <1>4, <1>5, <1>6 DEF OneLostPerFault, Aborted

LEMMA Invariance == Spec => []IInv
<1>1. IInv /\ [Next]_vars => IInv'
  <2> SUFFICES ASSUME IInv, [Next]_vars PROVE IInv'
    OBVIOUS
  <2>1. ASSUME NEW u \in Uploads, Body(u) \/ Abort(u) PROVE IInv'
    BY <2>1, BodyKeepsInv, AbortKeepsInv
  <2>2. CASE Load \/ UNCHANGED vars
    BY <2>2, OthersKeepInv
       DEF Load, LoadBegin, LoadOpen, LoadRead, LoadStop, LoadEnd, vars
  <2>3. CASE PowerCycle
    BY <2>3, PowerKeepsInv
  <2> QED
    BY <2>1, <2>2, <2>3 DEF Next
<1> QED
  BY InvInit, <1>1, PTL DEF Spec

(* "Only supports one save at a time" (HTTP.cpp:638): however uploads       *)
(* overlap, fail, are cut off or lose power, no more are answered "Saved"   *)
(* without being stored than failed, overlapped or were cut off.            *)
THEOREM SavedIsStored == Spec => []OneLostPerFault
BY Invariance, BooksBalance, PTL

-----------------------------------------------------------------------------
(* What runs.  As long as nothing disturbed a save, a file is whole but for *)
(* the one that is being saved, the loader reads a whole program that does  *)
(* not change, and what it has read so far is that program's beginning.     *)

IsWhole(c) == \E u \in Uploads : c = Whole(u)
SavesProgram == saving /\ file = Bytecode

\* The variables of u's program, the first n pieces of them.
Rest(u, n) == [i \in 1 .. n |-> <<u, CodePieces + i>>]

WholeFiles == \A f \in DOMAIN stored : (saving /\ file = f) \/ IsWhole(stored[f])

\* No save of the program runs beside a load of it.
LoadIsAlone == Loading => ~SavesProgram

ReadSoFar ==
  /\ Bytecode \in DOMAIN stored /\ lpos \in 0 .. Pieces
  /\ \E u \in Uploads :
       /\ Program = Whole(u)
       /\ code = Prefix(u, IF lpos < CodePieces THEN lpos ELSE CodePieces)
       /\ lpos > CodePieces => mem = Rest(u, lpos - CodePieces)

LoadFollows ==
  /\ lpc \in {"idle", "open", "read", "done"}
  /\ Bytecode \notin DOMAIN stored => code = <<>> /\ mem = <<>>
  /\ lpc = "read" => ReadSoFar
  /\ lpc = "done" => code \o mem = Program
  /\ lpc = "idle" => (code = <<>> /\ mem = <<>>) \/ IsWhole(code \o mem)
  /\ lpc = "idle" /\ ~reload_flag /\ ~SavesProgram => code \o mem = Program

RunInv == Undisturbed => WholeFiles /\ LoadIsAlone /\ LoadFollows

LEMMA Parts ==
  ASSUME NEW u
  PROVE  /\ Len(Whole(u)) = Pieces
         /\ \A i \in 1 .. Pieces : Whole(u)[i] = <<u, i>>
         /\ Prefix(u, Pieces) = Whole(u) /\ Prefix(u, 0) = <<>>
         /\ Prefix(u, CodePieces) \o Rest(u, Pieces - CodePieces) = Whole(u)
         /\ \A v : Prefix(u, 1) # Whole(v)
         /\ Prefix(u, 1) # <<>>
<1> Pieces \in Nat /\ CodePieces \in Nat /\ CodePieces > 0 /\ CodePieces < Pieces
  BY PiecesAssumption
<1>1. \A v : Len(Whole(v)) = Pieces
  BY DEF Whole
<1>2. \A i \in 1 .. Pieces : Whole(u)[i] = <<u, i>>
  BY DEF Whole
<1>3. Prefix(u, Pieces) = Whole(u) /\ Prefix(u, 0) = <<>>
  BY DEF Prefix, Whole
<1>4. Len(Prefix(u, 1)) = 1
  BY DEF Prefix
<1>5. Prefix(u, CodePieces) \o Rest(u, Pieces - CodePieces) = Whole(u)
  BY DEF Prefix, Rest, Whole
<1>6. \A v : Prefix(u, 1) # Whole(v)
  <2> SUFFICES ASSUME NEW v, Prefix(u, 1) = Whole(v) PROVE FALSE
    OBVIOUS
  <2>1. Len(Whole(v)) = Pieces
    BY <1>1
  <2>2. Len(Prefix(u, 1)) = Len(Whole(v))
    OBVIOUS
  <2> QED
    BY <1>4, <2>1, <2>2
<1>7. Prefix(u, 1) # <<>>
  <2>1. DOMAIN Prefix(u, 1) = 1 .. 1
    BY DEF Prefix
  <2>2. 1 \in DOMAIN Prefix(u, 1) /\ 1 \notin DOMAIN <<>>
    BY <2>1
  <2> QED
    BY <2>2
<1> QED
  BY <1>1, <1>2, <1>3, <1>5, <1>6, <1>7

LEMMA RestGrows ==
  ASSUME NEW u, NEW n \in Nat
  PROVE  Append(Rest(u, n), <<u, CodePieces + n + 1>>) = Rest(u, n + 1)
<1> CodePieces \in Nat
  BY PiecesAssumption
<1> QED
  BY DEF Rest

\* Where nothing was disturbed nothing is owed: the flag is up exactly while
\* somebody sends.
LEMMA NothingOwed == IInv /\ Undisturbed => ~Owing
<1> SUFFICES ASSUME IInv, Undisturbed PROVE ~Owing
  OBVIOUS
<1>1. Aborted = {} /\ lost \ failed \subseteq Uploads
  BY DEF Undisturbed, Aborted, IInv, LostAreAnswered
<1>2. Cardinality(Aborted) = 0 /\ Cardinality(lost \ failed) \in Nat
  BY <1>1, Finite, FS_EmptySet
<1> QED
  BY <1>2 DEF IInv, EachHasItsAbort

\* A piece of a body while nothing is disturbed: one more piece of its file.
Quiet(u, i) ==
  /\ IF i = 1 THEN ~saving
     ELSE saving /\ file = FileOf[u] /\ FileOf[u] \in DOMAIN stored
  /\ DOMAIN stored' = DOMAIN stored \cup {FileOf[u]}
  /\ stored'[FileOf[u]] = Prefix(u, i)
  /\ \A g \in DOMAIN stored \ {FileOf[u]} : stored'[g] = stored[g]
  /\ saving' = (i # Pieces)
  /\ i # Pieces => file' = FileOf[u]
  /\ reload_flag' = (reload_flag \/ (i = Pieces /\ FileOf[u] = Bytecode))
  /\ Loading => Program' = Program /\ ~ (i = Pieces /\ FileOf[u] = Bytecode)

LEMMA QuietBody ==
  ASSUME IInv, NEW u \in Uploads, Body(u), Undisturbed'
  PROVE  Undisturbed /\ Quiet(u, sent[u] + 1)
<1> DEFINE i == sent[u] + 1
           last == i = Pieces
<1>0. SaveTypes /\ Pieces \in Nat /\ Pieces > 1
  BY PiecesAssumption DEF IInv
<1>1. PICK opened \in {TRUE} \cup {"open" \notin Faults},
           written \in {TRUE} \cup {"write" \notin Faults} :
        LET begun == IF i = 1 THEN Start(Saver, u, opened) ELSE Saver
            filled == Chunk(begun, u, i, written)
            ended == IF last THEN End(filled) ELSE filled
            reload == last /\ Requests(filled, u)
        IN  /\ saving' = ended.saving /\ file' = ended.file
            /\ stored' = ended.stored
            /\ sent' = [sent EXCEPT ![u] = i]
            /\ phase' = [phase EXCEPT ![u] = IF last THEN "saved" ELSE "sending"]
            /\ lost' = IF last /\ Content(ended.stored, FileOf[u]) # Whole(u)
                       THEN lost \cup {u} ELSE lost
            /\ failed' = failed
                 \cup (IF Others(u) = {} THEN {} ELSE Others(u) \cup {u})
                 \cup (IF (i = 1 /\ ~saving /\ ~opened) \/ (begun.saving /\ ~written)
                       THEN {u} ELSE {})
            /\ reload_flag' = (reload_flag \/ reload)
            /\ pending' = (pending \/ reload)
            /\ raced' = (raced \/ (Loading /\ Program' # Program)
                               \/ (Loading /\ reload))
  BY DEF Body
<1> DEFINE b == IF i = 1 THEN Start(Saver, u, opened) ELSE Saver
           s == Chunk(b, u, i, written)
           e == IF last THEN End(s) ELSE s
<1>2. /\ phase[u] \in {"waiting", "sending"}
      /\ phase' = [phase EXCEPT ![u] = IF last THEN "saved" ELSE "sending"]
      /\ i = 1 => u \notin Active
      /\ i # 1 => u \in Active
  BY <1>0 DEF SaveTypes, Body, Active
<1>3. /\ failed' = {} /\ failed = {} /\ Others(u) = {}
      /\ i = 1 /\ ~saving => opened
      /\ b.saving => written
  <2>1. failed' = {}
    BY DEF Undisturbed
  <2> QED
    BY <1>1, <2>1
<1>4. Undisturbed
  <2>1. ~raced
    BY <1>1 DEF Undisturbed
  <2>2. \A v \in Uploads : phase[v] # "aborted"
    BY <1>0, <1>2 DEF Undisturbed, SaveTypes
  <2> QED
    BY <1>3, <2>1, <2>2 DEF Undisturbed
<1>5. ~Owing
  BY <1>4, NothingOwed
<1>6. IF i = 1 THEN saving = FALSE ELSE saving = TRUE /\ Stores(u)
  <2>1. CASE i = 1
    <3>1. Active = {}
      BY <1>2, <1>3, <2>1 DEF Active, Others
    <3> QED
      BY <1>0, <1>5, <2>1, <3>1 DEF Owing, SaveTypes
  <2>2. CASE i # 1
    <3>1. u \in Active \ failed
      BY <1>2, <1>3, <2>2
    <3>2. saving = TRUE
      BY <1>0, <1>5, <3>1 DEF Owing, Doomed, SaveTypes
    <3> QED
      BY <2>2, <3>1, <3>2 DEF IInv, FlagIsOwn
  <2> QED
    BY <2>1, <2>2
<1>7. /\ b = [saving |-> TRUE, file |-> FileOf[u], stored |-> b.stored]
      /\ b.stored = [g \in DOMAIN stored \cup {FileOf[u]} |->
                       IF g = FileOf[u] THEN Prefix(u, sent[u]) ELSE stored[g]]
  <2>1. CASE i = 1
    <3>1. Prefix(u, sent[u]) = <<>>
      <4>1. sent[u] = 0
        BY <1>0, <2>1 DEF SaveTypes
      <4> QED
        BY <4>1, Parts
    <3>2. b = Start(Saver, u, TRUE)
      BY <1>3, <1>6, <2>1
    <3>3. Start(Saver, u, TRUE) = [saving |-> TRUE, file |-> FileOf[u],
                                   stored |-> Truncated(Saver, FileOf[u])]
      BY <1>6, <2>1 DEF Start, Saver
    <3>4. Truncated(Saver, FileOf[u])
            = [g \in DOMAIN stored \cup {FileOf[u]} |->
                 IF g = FileOf[u] THEN <<>> ELSE stored[g]]
      BY DEF Truncated, Saver
    <3>5. [g \in DOMAIN stored \cup {FileOf[u]} |->
             IF g = FileOf[u] THEN <<>> ELSE stored[g]]
            = [g \in DOMAIN stored \cup {FileOf[u]} |->
                 IF g = FileOf[u] THEN Prefix(u, sent[u]) ELSE stored[g]]
      BY <3>1
    <3> HIDE DEF b
    <3> DEFINE t == Truncated(Saver, FileOf[u])
    <3>6. t = [g \in DOMAIN stored \cup {FileOf[u]} |->
                 IF g = FileOf[u] THEN <<>> ELSE stored[g]]
      BY <3>4
    <3>7. b = [saving |-> TRUE, file |-> FileOf[u], stored |-> t]
      BY <3>2, <3>3
    <3> HIDE DEF t
    <3> QED
      BY <3>5, <3>6, <3>7
  <2>2. CASE i # 1
    <3>1. b = Saver /\ saving = TRUE /\ file = FileOf[u]
          /\ FileOf[u] \in DOMAIN stored /\ stored[FileOf[u]] = Prefix(u, sent[u])
      BY <1>6, <2>2 DEF Stores
    <3>2. stored = [g \in DOMAIN stored |-> stored[g]]
      BY <1>0 DEF SaveTypes
    <3> HIDE DEF b
    <3> QED
      BY <3>1, <3>2 DEF Saver
  <2> QED
    BY <2>1, <2>2
<1>8. /\ s = [saving |-> TRUE, file |-> FileOf[u], stored |-> s.stored]
      /\ s.stored = [g \in DOMAIN stored \cup {FileOf[u]} |->
                       IF g = FileOf[u] THEN Prefix(u, i) ELSE stored[g]]
  <2>1. b.saving /\ b.file = FileOf[u]
    BY <1>7
  <2>2. s = [b EXCEPT !.stored[b.file] = Append(@, <<u, i>>)]
    BY <1>3, <2>1 DEF Chunk
  <2>3. Append(Prefix(u, sent[u]), <<u, i>>) = Prefix(u, i)
    BY <1>0, PrefixGrows DEF SaveTypes
  <2> HIDE DEF b, s
  <2> QED
    BY <1>7, <2>1, <2>2, <2>3
<1>9. /\ stored' = s.stored
      /\ last => saving' = FALSE
      /\ ~last => saving' = TRUE /\ file' = FileOf[u]
      /\ reload_flag' = (reload_flag \/ (last /\ FileOf[u] = Bytecode))
      /\ Loading => Program' = Program /\ ~ (last /\ FileOf[u] = Bytecode)
  <2>1. /\ saving' = e.saving /\ file' = e.file /\ stored' = e.stored
        /\ reload_flag' = (reload_flag \/ (last /\ Requests(s, u)))
        /\ raced' = (raced \/ (Loading /\ Program' # Program)
                           \/ (Loading /\ last /\ Requests(s, u)))
    BY <1>1
  <2>2. e = IF last THEN End(s) ELSE s
    OBVIOUS
  <2> HIDE DEF b, s, e
  <2>3. Requests(s, u) = (FileOf[u] = Bytecode)
    BY <1>8 DEF Requests
  <2>4. End(s).saving = FALSE /\ End(s).stored = s.stored
    BY <1>8 DEF End
  <2>5. ~raced'
    BY DEF Undisturbed
  <2>6. last => saving' = FALSE /\ stored' = s.stored
    BY <2>1, <2>2, <2>4
  <2>7. ~last => saving' = TRUE /\ stored' = s.stored /\ file' = FileOf[u]
    BY <1>8, <2>1, <2>2
  <2> HIDE DEF last
  <2>8. reload_flag' = (reload_flag \/ (last /\ FileOf[u] = Bytecode))
    BY <2>1, <2>3
  <2>9. Loading => Program' = Program /\ ~ (last /\ FileOf[u] = Bytecode)
    BY <2>1, <2>3, <2>5
  <2> QED
    BY <2>6, <2>7, <2>8, <2>9
<1> HIDE DEF b, s, e
<1> QED
  BY <1>4, <1>6, <1>8, <1>9 DEF Quiet, Stores

LEMMA RunInit == Init => RunInv
<1> SUFFICES ASSUME Init PROVE RunInv
  OBVIOUS
<1>1. /\ DOMAIN stored = {} /\ lpc = "idle" /\ code = <<>> /\ mem = <<>>
      /\ Bytecode \notin DOMAIN stored
  BY DEF Init
<1>2. Program = <<>> /\ code \o mem = <<>>
  BY <1>1 DEF Program, Content
<1> QED
  BY <1>1, <1>2 DEF RunInv, WholeFiles, LoadIsAlone, Loading, LoadFollows

LEMMA BodyKeepsRun ==
  ASSUME IInv, RunInv, NEW u \in Uploads, Body(u)
  PROVE  RunInv'
<1> SUFFICES ASSUME Undisturbed' PROVE WholeFiles' /\ LoadIsAlone' /\ LoadFollows'
  BY DEF RunInv
<1> DEFINE i == sent[u] + 1
<1>1. Undisturbed /\ Quiet(u, i)
  BY QuietBody
<1>2. WholeFiles /\ LoadIsAlone /\ LoadFollows
  BY <1>1 DEF RunInv
<1>3. UNCHANGED loadVars
  BY DEF Body
<1> HIDE DEF i
<1>4. Program' = IF FileOf[u] = Bytecode THEN Prefix(u, i) ELSE Program
  BY <1>1 DEF Quiet, Program, Content
<1>5. WholeFiles'
  <2> SUFFICES ASSUME NEW f \in DOMAIN stored'
               PROVE  (saving' /\ file' = f) \/ IsWhole(stored'[f])
    BY DEF WholeFiles, IsWhole, Whole
  <2>1. CASE f = FileOf[u]
    <3>1. CASE i = Pieces
      BY <1>1, <2>1, <3>1, Parts DEF Quiet, IsWhole
    <3>2. CASE i # Pieces
      BY <1>1, <2>1, <3>2 DEF Quiet
    <3> QED
      BY <3>1, <3>2
  <2>2. CASE f # FileOf[u]
    BY <1>1, <1>2, <2>2 DEF Quiet, WholeFiles
  <2> QED
    BY <2>1, <2>2
<1>6. LoadIsAlone'
  <2> SUFFICES ASSUME Loading', SavesProgram' PROVE FALSE
    BY DEF LoadIsAlone
  <2>1. FileOf[u] = Bytecode
    BY <1>1 DEF Quiet, SavesProgram
  <2>2. Loading /\ Program = Prefix(u, i)
    BY <1>1, <1>3, <1>4, <2>1 DEF Quiet, Loading, loadVars
  <2>3. i = 1 /\ ~saving
    BY <1>1, <1>2, <2>1, <2>2 DEF Quiet, LoadIsAlone, SavesProgram
  <2>4. Program = <<>> \/ IsWhole(Program)
    BY <1>2, <2>3 DEF WholeFiles, Program, Content
  <2> QED
    BY <2>2, <2>3, <2>4, Parts DEF IsWhole
<1>7. LoadFollows'
  <2>1. Bytecode \notin DOMAIN stored' => Bytecode \notin DOMAIN stored
    BY <1>1 DEF Quiet
  <2>2. Loading => Program' = Program
    BY <1>1 DEF Quiet
  <2>3. lpc' = "read" => ReadSoFar'
    <3> SUFFICES ASSUME lpc = "read" PROVE ReadSoFar'
      BY <1>3 DEF loadVars
    <3>1. ReadSoFar /\ Program' = Program
      BY <1>2, <2>2 DEF LoadFollows, Loading
    <3> QED
      BY <1>1, <1>3, <3>1 DEF ReadSoFar, Quiet, loadVars, Whole, Prefix, Rest
  <2>4. lpc' = "done" => code' \o mem' = Program'
    BY <1>2, <1>3, <2>2 DEF LoadFollows, Loading, loadVars
  <2>5. ASSUME lpc' = "idle", ~reload_flag', ~SavesProgram'
        PROVE  code' \o mem' = Program'
    <3>1. FileOf[u] # Bytecode
      BY <1>1, <2>5 DEF Quiet, SavesProgram
    <3>2. ~reload_flag /\ ~SavesProgram
      BY <1>1, <2>5, <3>1 DEF Quiet, SavesProgram
    <3> QED
      BY <1>2, <1>3, <1>4, <2>5, <3>1, <3>2 DEF LoadFollows, loadVars
  <2> QED
    BY <1>2, <1>3, <2>1, <2>3, <2>4, <2>5 DEF LoadFollows, loadVars, IsWhole, Whole
<1> QED
  BY <1>5, <1>6, <1>7

\* The connection that breaks, and a power cycle with nobody sending: nothing
\* is being saved then.
LEMMA FaultsKeepRun ==
  /\ \A u \in Uploads : IInv /\ RunInv /\ Abort(u) => RunInv'
  /\ IInv /\ RunInv /\ PowerCycle => RunInv'
<1>1. ASSUME IInv, NEW u \in Uploads, Abort(u) PROVE RunInv'
  <2>1. phase'[u] = "aborted"
    BY <1>1 DEF Abort, IInv, SaveTypes
  <2> QED
    BY <2>1 DEF RunInv, Undisturbed
<1>2. ASSUME IInv, RunInv, PowerCycle, Undisturbed'
      PROVE  WholeFiles' /\ LoadIsAlone' /\ LoadFollows'
  <2>1. /\ phase' = [u \in Uploads |-> IF phase[u] = "sending" THEN "aborted" ELSE phase[u]]
        /\ lpc' = "open" /\ code' = <<>> /\ mem' = <<>> /\ saving' = FALSE
        /\ UNCHANGED <<stored, failed, raced>>
    BY <1>2 DEF PowerCycle
  <2>2. Active = {} /\ Undisturbed
    <3>1. \A u \in Uploads : phase'[u] # "aborted"
      BY <1>2 DEF Undisturbed
    <3>2. \A u \in Uploads : phase[u] # "sending" /\ phase[u] # "aborted"
      BY <2>1, <3>1
    <3> QED
      BY <1>2, <2>1, <3>2 DEF Undisturbed, Active
  <2>3. ~saving
    BY <1>2, <2>2, NothingOwed DEF Owing
  <2>4. WholeFiles
    BY <1>2, <2>2 DEF RunInv
  <2>5. \A f \in DOMAIN stored : IsWhole(stored[f])
    BY <2>3, <2>4 DEF WholeFiles
  <2>6. WholeFiles'
    BY <2>1, <2>5 DEF WholeFiles, IsWhole, Whole
  <2> QED
    BY <2>1, <2>6 DEF LoadIsAlone, SavesProgram, LoadFollows
<1> QED
  BY <1>1, <1>2 DEF RunInv

\* A load finds the program whole, or none.
LEMMA LoadsWhole ==
  ASSUME WholeFiles, LoadIsAlone, Loading, Bytecode \in DOMAIN stored
  PROVE  IsWhole(Program)
BY DEF WholeFiles, LoadIsAlone, SavesProgram, Program, Content

LEMMA ReadKeeps ==
  ASSUME ReadSoFar, LoadRead
  PROVE  ReadSoFar'
<1> Pieces \in Nat /\ CodePieces \in Nat /\ CodePieces > 0 /\ CodePieces < Pieces
  BY PiecesAssumption
<1>1. PICK u \in Uploads :
        /\ Program = Whole(u)
        /\ code = Prefix(u, IF lpos < CodePieces THEN lpos ELSE CodePieces)
        /\ lpos > CodePieces => mem = Rest(u, lpos - CodePieces)
  BY DEF ReadSoFar
<1>2. /\ Bytecode \in DOMAIN stored' /\ Program' = Program
      /\ lpos \in 0 .. Pieces - 1 /\ lpos' = lpos + 1
  BY DEF ReadSoFar, LoadRead, saveVars, Program, Content
<1> DEFINE p == Program[lpos + 1]
<1>3. p = <<u, lpos + 1>>
  BY <1>1, <1>2, Parts
<1>4. IF lpos < CodePieces THEN code' = Append(code, p) /\ UNCHANGED mem
      ELSE /\ mem' = IF lpos = CodePieces THEN <<p>> ELSE Append(mem, p)
           /\ UNCHANGED code
  BY DEF LoadRead
<1> HIDE DEF p
<1>5. /\ code' = Prefix(u, IF lpos' < CodePieces THEN lpos' ELSE CodePieces)
      /\ lpos' > CodePieces => mem' = Rest(u, lpos' - CodePieces)
  <2>1. CASE lpos < CodePieces
    <3>1. code = Prefix(u, lpos) /\ code' = Append(code, <<u, lpos + 1>>)
      BY <1>1, <1>3, <1>4, <2>1
    <3>2. Append(Prefix(u, lpos), <<u, lpos + 1>>) = Prefix(u, lpos + 1)
      <4>1. lpos \in Nat
        BY <1>2
      <4> QED
        BY <4>1, PrefixGrows
    <3>3. lpos' <= CodePieces /\ code' = Prefix(u, lpos')
      BY <1>2, <2>1, <3>1, <3>2
    <3>4. (IF lpos' < CodePieces THEN lpos' ELSE CodePieces) = lpos'
      BY <1>2, <2>1
    <3> QED
      BY <1>2, <2>1, <3>3, <3>4
  <2>2. CASE lpos = CodePieces
    <3>1. <<<<u, CodePieces + 1>>>> = Rest(u, 1)
      BY DEF Rest
    <3> QED
      BY <1>1, <1>2, <1>3, <1>4, <2>2, <3>1
  <2>3. CASE lpos > CodePieces
    <3>1. /\ lpos - CodePieces \in Nat
          /\ CodePieces + (lpos - CodePieces) + 1 = lpos + 1
          /\ (lpos - CodePieces) + 1 = lpos' - CodePieces
      BY <1>2, <2>3
    <3>2. Append(Rest(u, lpos - CodePieces), <<u, lpos + 1>>) = Rest(u, lpos' - CodePieces)
      BY <3>1, RestGrows
    <3>3. mem' = Append(mem, <<u, lpos + 1>>) /\ mem = Rest(u, lpos - CodePieces)
      BY <1>1, <1>2, <1>3, <1>4, <2>3
    <3>4. code' = code /\ code = Prefix(u, CodePieces)
      BY <1>1, <1>2, <1>4, <2>3
    <3>5. (IF lpos' < CodePieces THEN lpos' ELSE CodePieces) = CodePieces
      BY <1>2, <2>3
    <3> QED
      BY <3>2, <3>3, <3>4, <3>5
  <2> QED
    BY <1>2, <2>1, <2>2, <2>3
<1>6. Program' = Whole(u)
  BY <1>1, <1>2
<1> QED
  BY <1>2, <1>5, <1>6, SMTT(30) DEF ReadSoFar, Whole, Prefix, Rest

LEMMA LoadKeepsRun == RunInv /\ Load => RunInv'
<1> SUFFICES ASSUME RunInv, Load, Undisturbed'
             PROVE  WholeFiles' /\ LoadIsAlone' /\ LoadFollows'
  BY DEF RunInv
<1> Pieces \in Nat /\ CodePieces \in Nat /\ CodePieces > 0 /\ CodePieces < Pieces
  BY PiecesAssumption
<1>1. /\ UNCHANGED <<saving, file, stored>> /\ UNCHANGED <<phase, failed>>
      /\ ~raced' /\ ~raced
      /\ Program' = Program /\ SavesProgram' = SavesProgram
  <2>1. UNCHANGED <<saving, file, stored>> /\ UNCHANGED <<phase, failed>>
    BY DEF Load, LoadBegin, LoadOpen, LoadRead, LoadStop, LoadEnd, saveVars, clientVars
  <2>2. raced => raced'
    BY DEF Load, LoadBegin, LoadOpen, LoadRead, LoadStop, LoadEnd
  <2> QED
    BY <2>1, <2>2 DEF Undisturbed, Program, Content, SavesProgram
<1>2. WholeFiles /\ LoadIsAlone /\ LoadFollows
  BY <1>1 DEF RunInv, Undisturbed
<1>3. WholeFiles'
  BY <1>1, <1>2 DEF WholeFiles, IsWhole, Whole
<1>4. LoadIsAlone'
  <2>1. CASE LoadBegin
    BY <1>1, <2>1 DEF LoadBegin, LoadIsAlone, SavesProgram
  <2>2. CASE ~LoadBegin
    BY <1>1, <1>2, <2>2 DEF Load, LoadOpen, LoadRead, LoadStop, LoadEnd, LoadIsAlone, Loading
  <2> QED
    BY <2>1, <2>2
<1>5. Bytecode \notin DOMAIN stored' => code' = <<>> /\ mem' = <<>>
  <2> SUFFICES ASSUME Bytecode \notin DOMAIN stored PROVE code' = <<>> /\ mem' = <<>>
    BY <1>1
  <2> QED
    BY <1>2 DEF LoadFollows, ReadSoFar, Load, LoadBegin, LoadOpen, LoadRead, LoadStop, LoadEnd
<1>6. LoadFollows'
  <2>1. CASE LoadBegin
    BY <1>5, <2>1 DEF LoadBegin, LoadFollows
  <2>2. CASE LoadOpen
    <3>1. CASE Bytecode \notin DOMAIN stored
      <4>1. lpc' = "done" /\ code' = <<>> /\ mem' = <<>> /\ Program = <<>>
        BY <1>1, <1>5, <2>2, <3>1 DEF LoadOpen, Program, Content
      <4> QED
        BY <1>1, <1>5, <4>1 DEF LoadFollows
    <3>2. CASE Bytecode \in DOMAIN stored
      <4>1. lpc = "open" /\ lpc' = "read" /\ code' = <<>> /\ lpos' = 0
        BY <2>2, <3>2 DEF LoadOpen
      <4>2. PICK u \in Uploads : Program = Whole(u)
        BY <1>2, <3>2, <4>1, LoadsWhole DEF Loading, IsWhole
      <4>3. Program' = Whole(u) /\ code' = Prefix(u, 0)
        BY <1>1, <4>1, <4>2, Parts
      <4>4. ReadSoFar'
        BY <1>1, <3>2, <4>1, <4>3 DEF ReadSoFar, Whole, Prefix
      <4> QED
        BY <1>5, <4>1, <4>4 DEF LoadFollows
    <3> QED
      BY <3>1, <3>2
  <2>3. CASE LoadRead
    <3>1. lpc = "read" /\ lpc' = "read"
      BY <2>3 DEF LoadRead
    <3>2. ReadSoFar'
      BY <1>2, <2>3, <3>1, ReadKeeps DEF LoadFollows
    <3> QED
      BY <1>5, <3>1, <3>2 DEF LoadFollows
  <2>4. CASE LoadStop
    <3>1. lpc = "read" /\ lpc' = "done" /\ ReadSoFar
      BY <1>2, <2>4 DEF LoadStop, LoadFollows
    <3>2. PICK u \in Uploads :
            /\ Program = Whole(u)
            /\ code = Prefix(u, IF lpos < CodePieces THEN lpos ELSE CodePieces)
            /\ lpos > CodePieces => mem = Rest(u, lpos - CodePieces)
      BY <3>1 DEF ReadSoFar
    <3>3. lpos = Pieces
      BY <2>4, <3>1, <3>2, Parts DEF LoadStop, ReadSoFar
    <3>4. code' = Prefix(u, CodePieces) /\ mem' = Rest(u, Pieces - CodePieces)
      BY <2>4, <3>2, <3>3 DEF LoadStop
    <3>5. code' \o mem' = Program'
      BY <1>1, <3>2, <3>4, Parts
    <3> QED
      BY <1>5, <3>1, <3>5 DEF LoadFollows
  <2>5. CASE LoadEnd
    <3>1. lpc = "done" /\ lpc' = "idle" /\ UNCHANGED <<code, mem>> /\ code \o mem = Program
      BY <1>2, <2>5 DEF LoadEnd, LoadFollows
    <3>2. (code = <<>> /\ mem = <<>>) \/ IsWhole(code \o mem)
      <4>1. CASE Bytecode \notin DOMAIN stored
        BY <1>2, <4>1 DEF LoadFollows
      <4>2. CASE Bytecode \in DOMAIN stored
        BY <1>2, <3>1, <4>2, LoadsWhole DEF Loading
      <4> QED
        BY <4>1, <4>2
    <3> QED
      BY <1>1, <1>5, <3>1, <3>2 DEF LoadFollows, IsWhole, Whole
  <2> QED
    BY <2>1, <2>2, <2>3, <2>4, <2>5 DEF Load
<1> QED
  BY <1>3, <1>4, <1>6

(* What solve_logic runs is what bytecode.txt holds, and one whole upload:  *)
(* however loads and saves by the two tasks interleave, unless a save       *)
(* failed, was cut off or overlapped another one or a load.                 *)
THEOREM RunsTheProgram == Spec => []RunsRightProgram
<1>1. IInv /\ RunInv /\ [Next]_vars => RunInv'
  <2> SUFFICES ASSUME IInv, RunInv, [Next]_vars PROVE RunInv'
    OBVIOUS
  <2>1. ASSUME NEW u \in Uploads, Body(u) \/ Abort(u) PROVE RunInv'
    BY <2>1, BodyKeepsRun, FaultsKeepRun
  <2>2. CASE Load
    BY <2>2, LoadKeepsRun
  <2>3. CASE PowerCycle
    BY <2>3, FaultsKeepRun
  <2>4. CASE UNCHANGED vars
    BY <2>4 DEF RunInv, Undisturbed, WholeFiles, IsWhole, Whole, LoadIsAlone, Loading,
                SavesProgram, LoadFollows, ReadSoFar, Program, Content, Prefix, Rest,
                vars, saveVars, clientVars, loadVars
  <2> QED
    BY <2>1, <2>2, <2>3, <2>4 DEF Next
<1>2. RunInv => RunsRightProgram
  BY DEF RunInv, LoadFollows, RunsRightProgram, RunsStoredProgram, RunsWholeProgram,
         SolveGuard, Loading, SavesProgram, IsWhole
<1> QED
  BY RunInit, Invariance, <1>1, <1>2, PTL DEF Spec

=============================================================================
