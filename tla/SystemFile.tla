----------------------------- MODULE SystemFile -----------------------------
(***************************************************************************)
(* Saving system files over HTTP and reloading the program from them.      *)
(*                                                                         *)
(* The async_tcp task calls process_savesystemfile_body once per piece of  *)
(* a POST body; save_systemfile keeps one static file and one static flag  *)
(* for all requests.  The loop task sees reload_flag and reads             *)
(* bytecode.txt piece by piece: first the program, then its variables.     *)
(*                                                                         *)
(* A body is Pieces pieces long, the first CodePieces of them program.  A  *)
(* piece is <<upload, number>>; a file is the sequence of pieces written.  *)
(***************************************************************************)
EXTENDS Naturals, Sequences, FiniteSets

CONSTANTS
  Uploads,     \* the POST requests of a behaviour
  FileOf,      \* the file name each one asks for
  Bytecode,    \* the name of bytecode.txt
  NoFile,      \* the static File object holds no file
  Pieces, CodePieces,
  Faults       \* what may happen: "open" or "write" fails, the connection
               \* breaks ("abort"), "power" is cut, saves "overlap"

ASSUME PiecesAssumption ==
  Pieces \in Nat /\ CodePieces \in 1 .. Pieces - 1
ASSUME UploadsAssumption == IsFiniteSet(Uploads)
ASSUME FilesAssumption ==
  /\ \A u \in Uploads : FileOf[u] # NoFile
  /\ Faults \subseteq {"open", "write", "abort", "power", "overlap"}

VARIABLES
  saving,       \* save_systemfile's static flag
  file,         \* the name behind its static File, or NoFile
  stored,       \* SPIFFS: the pieces of each file that exists
  sent,         \* how many pieces of each upload reached the node
  phase,        \* what the client knows of its upload
  reload_flag,  \* Logic::reload_flag
  code, mem,    \* Logic's bytecode and variables, <<>> when NULL
  lpc, lpos,    \* where Logic::load is, and how far in the file
  lost,         \* uploads answered "Saved" that were not stored
  failed,       \* uploads SPIFFS did not open or write, or that overlapped another
  raced,        \* a save of bytecode.txt or its end overlapped a load
  pending       \* a reload was requested and none has begun since

saveVars == <<saving, file, stored>>
clientVars == <<sent, phase, lost, failed>>
loadVars == <<code, mem, lpc, lpos>>
vars == <<saveVars, clientVars, reload_flag, loadVars, raced, pending>>

Files == {FileOf[u] : u \in Uploads} \cup {Bytecode}
Piece == Uploads \X (1 .. Pieces)
Whole(u) == [i \in 1 .. Pieces |-> <<u, i>>]

TypeOK ==
  /\ saving \in BOOLEAN /\ reload_flag \in BOOLEAN
  /\ file \in Files \cup {NoFile}
  /\ DOMAIN stored \subseteq Files /\ \A f \in DOMAIN stored : stored[f] \in Seq(Piece)
  /\ sent \in [Uploads -> 0 .. Pieces]
  /\ phase \in [Uploads -> {"waiting", "sending", "saved", "aborted"}]
  /\ code \in Seq(Piece) /\ Len(code) <= CodePieces
  /\ mem \in Seq(Piece) /\ Len(mem) <= Pieces - CodePieces
  /\ lpc \in {"idle", "open", "read", "done"} /\ lpos \in 0 .. Pieces
  /\ lost \subseteq Uploads /\ failed \subseteq Uploads /\ raced \in BOOLEAN /\ pending \in BOOLEAN

Init ==
  /\ saving = FALSE /\ file = NoFile
  /\ stored = [f \in {} |-> <<>>]
  /\ sent = [u \in Uploads |-> 0]
  /\ phase = [u \in Uploads |-> "waiting"]
  /\ reload_flag = FALSE
  /\ code = <<>> /\ mem = <<>> /\ lpc = "idle" /\ lpos = 0
  /\ lost = {} /\ failed = {} /\ raced = FALSE /\ pending = FALSE

-----------------------------------------------------------------------------
(* save_systemfile's three modes, as functions of its static variables and *)
(* the file system s; ok is the answer of SPIFFS.                          *)

\* What file f holds; a missing file reads as an empty one.
Content(fs, f) == IF f \in DOMAIN fs THEN fs[f] ELSE <<>>

Truncated(s, f) == [g \in DOMAIN s.stored \cup {f} |-> IF g = f THEN <<>> ELSE s.stored[g]]

Saver == [saving |-> saving, file |-> file, stored |-> stored]

\* Faulty variant of Start: the file is opened for appending.
StartAppends(s, u, ok) ==
  IF s.saving THEN [s EXCEPT !.saving = FALSE]
  ELSE IF ok THEN [saving |-> TRUE, file |-> FileOf[u],
                   stored |-> IF FileOf[u] \in DOMAIN s.stored THEN s.stored
                              ELSE Truncated(s, FileOf[u])]
       ELSE [s EXCEPT !.file = NoFile]

Start(s, u, ok) ==
  IF s.saving THEN [s EXCEPT !.saving = FALSE]
  ELSE IF ok THEN [saving |-> TRUE, file |-> FileOf[u],
                   stored |-> Truncated(s, FileOf[u])]
       ELSE [s EXCEPT !.file = NoFile]

Chunk(s, u, i, ok) ==
  IF ~s.saving THEN s
  ELSE IF ok THEN [s EXCEPT !.stored[s.file] = Append(@, <<u, i>>)]
       ELSE [s EXCEPT !.saving = FALSE]

\* Faulty variant of End: the flag outlives the save.
EndStaysSaving(s) == IF s.saving THEN [s EXCEPT !.file = NoFile] ELSE s

End(s) == IF s.saving THEN [s EXCEPT !.saving = FALSE, !.file = NoFile] ELSE s

\* Logic::request_reload, called for the file type of the request that ends.
Requests(s, u) == s.saving /\ FileOf[u] = Bytecode

-----------------------------------------------------------------------------
(* The async_tcp task.                                                     *)

Loading == lpc # "idle"

\* What bytecode.txt holds.
Program == Content(stored, Bytecode)

\* The uploads under way beside u.
Others(u) == {v \in Uploads \ {u} : phase[v] = "sending"}

\* process_savesystemfile_body for the next piece of upload u.
Body(u) ==
  /\ phase[u] \in {"waiting", "sending"}
  /\ "overlap" \in Faults \/ Others(u) = {}
  /\ \E opened \in {TRUE} \cup {"open" \notin Faults},
        written \in {TRUE} \cup {"write" \notin Faults} :
       LET i == sent[u] + 1
           begun == IF i = 1 THEN Start(Saver, u, opened) ELSE Saver
           filled == Chunk(begun, u, i, written)
           last == i = Pieces
           ended == IF last THEN End(filled) ELSE filled
           reload == last /\ Requests(filled, u)
       IN  /\ saving' = ended.saving /\ file' = ended.file
           /\ stored' = ended.stored
           /\ sent' = [sent EXCEPT ![u] = i]
           /\ phase' = [phase EXCEPT ![u] = IF last THEN "saved" ELSE "sending"]
           /\ lost' = IF last /\ Content(ended.stored, FileOf[u]) # Whole(u)
                      THEN lost \cup {u} ELSE lost
           /\ failed' = failed
                \cup (IF Others(u) = {} THEN {} ELSE Others(u) \cup {u})
                \cup (IF (i = 1 /\ ~saving /\ ~opened) \/ (begun.saving /\ ~written)
                      THEN {u} ELSE {})
           /\ reload_flag' = (reload_flag \/ reload)
           /\ pending' = (pending \/ reload)
           /\ raced' = (raced \/ (Loading /\ Program' # Program)
                              \/ (Loading /\ reload))
  /\ UNCHANGED loadVars

\* The connection of an upload breaks: no callback tells save_systemfile.
Abort(u) ==
  /\ "abort" \in Faults
  /\ phase[u] = "sending"
  /\ phase' = [phase EXCEPT ![u] = "aborted"]
  /\ UNCHANGED <<saveVars, sent, lost, failed, reload_flag, loadVars, raced, pending>>

-----------------------------------------------------------------------------
(* The loop task: Logic::update and Logic::load.                           *)

LoadBegin ==
  /\ lpc = "idle" /\ reload_flag
  /\ lpc' = "open"
  /\ pending' = FALSE
  /\ raced' = (raced \/ (saving /\ file = Bytecode))
  /\ UNCHANGED <<saveVars, clientVars, reload_flag, code, mem, lpos>>

\* load_bytecode opens the file; load_cpu_bytecode frees the old program.
LoadOpen ==
  /\ lpc = "open"
  /\ IF Bytecode \notin DOMAIN stored
     THEN lpc' = "done" /\ UNCHANGED <<code, lpos>>
     ELSE lpc' = "read" /\ code' = <<>> /\ lpos' = 0
  /\ UNCHANGED <<saveVars, clientVars, reload_flag, mem, raced, pending>>

\* read_hex32 and read_hex8, up to the next piece.  load_var_bytecode frees
\* the old variables when it starts.
\* Faulty variants: the old variables are kept; one piece too many counts
\* as program.
LoadKeepsMem ==
  /\ lpc = "read" /\ lpos < Pieces /\ lpos < Len(Program)
  /\ LET p == Program[lpos + 1]
     IN  IF lpos < CodePieces
         THEN code' = Append(code, p) /\ UNCHANGED mem
         ELSE mem' = (IF mem = <<>> THEN <<p>> ELSE mem) /\ UNCHANGED code
  /\ lpos' = lpos + 1
  /\ UNCHANGED <<saveVars, clientVars, reload_flag, lpc, raced, pending>>

LoadPastProgram ==
  /\ lpc = "read" /\ lpos < Pieces /\ lpos < Len(Program)
  /\ code' = IF lpos <= CodePieces THEN Append(code, Program[lpos + 1]) ELSE code
  /\ mem' = IF lpos > CodePieces THEN Append(mem, Program[lpos + 1]) ELSE mem
  /\ lpos' = lpos + 1
  /\ UNCHANGED <<saveVars, clientVars, reload_flag, lpc, raced, pending>>

LoadRead ==
  /\ lpc = "read" /\ lpos < Pieces /\ lpos < Len(Program)
  /\ LET p == Program[lpos + 1]
     IN  IF lpos < CodePieces
         THEN code' = Append(code, p) /\ UNCHANGED mem
         ELSE /\ mem' = IF lpos = CodePieces THEN <<p>> ELSE Append(mem, p)
              /\ UNCHANGED code
  /\ lpos' = lpos + 1
  /\ UNCHANGED <<saveVars, clientVars, reload_flag, lpc, raced, pending>>

\* The end of the file, or of what the sizes in it announce.  A file that
\* ends after the program leaves the variables freed; one that ends inside
\* the program leaves the old variables.
LoadStop ==
  /\ lpc = "read" /\ (lpos = Pieces \/ lpos >= Len(Program))
  /\ lpc' = "done"
  /\ mem' = IF lpos = CodePieces THEN <<>> ELSE mem
  /\ UNCHANGED <<saveVars, clientVars, reload_flag, code, lpos, raced, pending>>

\* The last statement of load: the flag is cleared after the file was read.
LoadEnd ==
  /\ lpc = "done" /\ lpc' = "idle"
  /\ reload_flag' = FALSE
  /\ UNCHANGED <<saveVars, clientVars, code, mem, lpos, raced, pending>>

Load == LoadBegin \/ LoadOpen \/ LoadRead \/ LoadStop \/ LoadEnd

\* A power cycle: setup calls logic.init, which loads what the file holds.
PowerCycle ==
  /\ "power" \in Faults
  /\ saving' = FALSE /\ file' = NoFile
  /\ phase' = [u \in Uploads |-> IF phase[u] = "sending" THEN "aborted" ELSE phase[u]]
  /\ reload_flag' = FALSE /\ pending' = FALSE
  /\ code' = <<>> /\ mem' = <<>> /\ lpc' = "open" /\ lpos' = 0
  /\ UNCHANGED <<stored, sent, lost, failed, raced>>

Next ==
  \/ \E u \in Uploads : Body(u) \/ Abort(u)
  \/ Load
  \/ PowerCycle

Spec == Init /\ [][Next]_vars

\* The loop task calls logic.update forever.
FairSpec == Spec /\ WF_vars(Load)

-----------------------------------------------------------------------------
(* save_systemfile "only supports one save at a time" (HTTP.cpp:638): no   *)
(* file ever holds pieces of two uploads, unless both ran at the same time. *)
OneSaveAtATime ==
  \A f \in DOMAIN stored : \A i, j \in DOMAIN stored[f] :
    stored[f][i][1] # stored[f][j][1] => {stored[f][i][1], stored[f][j][1]} \subseteq failed

(* The browser is told "Saved" although the file does not hold the whole   *)
(* upload at most once per save that was cut off, failed or overlapped: it or *)
(* the save after it, whose start only clears the flag.  Without such a     *)
(* fault "Saved" is always true.                                           *)
OneLostPerFault ==
  Cardinality(lost) <= Cardinality(failed \cup {u \in Uploads : phase[u] = "aborted"})

\* No save failed, was cut off or overlapped another, and none overlapped a load.
Undisturbed == ~raced /\ failed = {} /\ \A u \in Uploads : phase[u] # "aborted"

(* With no reload requested and no load or save of it under way, the node  *)
(* runs the program its file holds, unless something disturbed a save.     *)
RunsStoredProgram ==
  Undisturbed /\ ~reload_flag /\ ~Loading /\ (saving => file # Bytecode)
    => code \o mem = Program

\* The guard of solve_logic: both buffers exist and neither size is 0.
SolveGuard == ~Loading /\ code # <<>> /\ mem # <<>>

(* What passes solve_logic's "Make sure logic is valid" (CPU.cpp:153) is   *)
(* one complete upload, unless something disturbed a save.                 *)
RunsWholeProgram ==
  Undisturbed /\ SolveGuard => \E u \in Uploads : code \o mem = Whole(u)

(* Both: what runs is the stored program and a whole one.                  *)
RunsRightProgram == RunsStoredProgram /\ RunsWholeProgram

(* request_reload promises a "reload on next update" (Logic.cpp:304):      *)
(* every request is followed by a load that begins after it.               *)
ReloadFollows == pending ~> ~pending

=============================================================================
