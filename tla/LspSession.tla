----------------------------- MODULE LspSession -----------------------------
(***************************************************************************)
(* The session of the language server (src/src/bin/ur_lsp.rs): the main    *)
(* loop takes one message of the editor or times out, then drains the      *)
(* channel of finished analyses; each analysis runs in a thread of its own *)
(* that sleeps, elaborates the project with the text it was given and      *)
(* sends its result.  A result is shown only if the generation stamp of    *)
(* its document is still the one the analysis was started with.            *)
(*                                                                         *)
(* A text is a version number: what matters is which edit a result is of.  *)
(* The editor's messages are handled in the order they are sent, so an     *)
(* edit is modelled at the moment the loop receives it.                    *)
(***************************************************************************)
EXTENDS Naturals, Sequences, FiniteSets

CONSTANTS
    Uris,      \* the documents an editor may open
    FileUris,  \* those with a file: location
    MaxEdits,  \* bound: opens and changes per document
    MaxOpens,  \* bound: opens per document
    GenMax,    \* u64::MAX, where saturating_add stops
    MaxDrain,  \* MAX_ANALYSIS_READY_DRAIN_PER_POLL
    Crashing   \* texts <<uri, version>> whose analysis panics

ASSUME LspAssumption ==
    /\ FileUris \subseteq Uris
    /\ MaxEdits \in Nat /\ MaxOpens \in Nat
    /\ MaxDrain \in Nat \ {0}
    /\ GenMax \in Nat /\ GenMax > MaxEdits

VARIABLES
    project,  \* whether the workspace root holds a project (Global.project)
    docs,     \* Global.docs: NoDoc, or the version of the text and its analysis_gen
    snaps,    \* Global.last_snap: the version the snapshot is of, or 0
    threads,  \* the analyses that have not sent their result yet
    ready,    \* the channel of AnalysisReady results
    pc,       \* the main loop: "recv", "drain" or "exited"
    drained,  \* results taken from the channel in this round
    shown,    \* the editor: the version its diagnostics are of, or 0
    edits,    \* the editor: how many texts each document has had
    opens,    \* the editor: how often each document was opened
    reply     \* the last answer: version of the text and of the elaboration used

vars == <<project, docs, snaps, threads, ready, pc, drained, shown, edits, opens, reply>>

NoDoc == [ver |-> 0, gen |-> 0]
IsOpen(u) == docs[u] # NoDoc
Jobs == [uri : Uris, gen : 1..GenMax, ver : 1..MaxEdits]

(***************************************************************************)
(* next_buffer_analysis_generation: one more, or 1 where there was none.   *)
(***************************************************************************)
\* Mutant: a change does not bump the generation.
NextGenStuck(g) == IF g = 0 THEN g + 1 ELSE g
NextGen(g) == IF g < GenMax THEN g + 1 ELSE GenMax

(***************************************************************************)
(* schedule_analysis: without a project the text is parsed at once and the *)
(* result sent from the main loop; with one a thread is started, for files.*)
(***************************************************************************)
\* Mutant: no analysis is started while another one runs.
ScheduleAnalysisAlone(job) ==
    /\ threads' = IF project /\ threads = {} THEN threads \cup {job} ELSE threads
    /\ ready' = IF project THEN ready ELSE Append(ready, job)
ScheduleAnalysis(job) ==
    IF project
    THEN /\ threads' = IF job.uri \in FileUris THEN threads \cup {job} ELSE threads
         /\ UNCHANGED ready
    ELSE /\ ready' = Append(ready, job)
         /\ UNCHANGED threads

(***************************************************************************)
(* The document's entry is replaced: the next text, stamped gen.           *)
(***************************************************************************)
NewText(u, gen) ==
    /\ edits[u] < MaxEdits
    /\ edits' = [edits EXCEPT ![u] = @ + 1]
    /\ docs' = [docs EXCEPT ![u] = [ver |-> edits[u] + 1, gen |-> gen]]
    /\ ScheduleAnalysis([uri |-> u, gen |-> gen, ver |-> edits[u] + 1])

Received == pc = "recv" /\ pc' = "drain" /\ drained' = 0

(* textDocument/didOpen; editors open a document that is not open.         *)
DidOpen(u) ==
    /\ Received
    /\ ~IsOpen(u) /\ opens[u] < MaxOpens
    /\ opens' = [opens EXCEPT ![u] = @ + 1]
    /\ NewText(u, NextGen(0))
    /\ UNCHANGED <<project, snaps, shown, reply>>

(* textDocument/didChange, of an open document.                            *)
DidChange(u) ==
    /\ Received
    /\ IsOpen(u)
    /\ NewText(u, NextGen(docs[u].gen))
    /\ UNCHANGED <<project, snaps, shown, opens, reply>>

(* textDocument/didClose: the state is dropped and empty diagnostics sent. *)
DidClose(u) ==
    /\ Received
    /\ IsOpen(u)
    /\ docs' = [docs EXCEPT ![u] = NoDoc]
    /\ snaps' = [snaps EXCEPT ![u] = 0]
    /\ shown' = [shown EXCEPT ![u] = 0]
    /\ UNCHANGED <<project, threads, ready, edits, opens, reply>>

(***************************************************************************)
(* Hover, completion, definition...: the answer is computed from the text  *)
(* of the document and the elaboration of the last snapshot.               *)
(***************************************************************************)
Answer(u) == [uri |-> u, text |-> docs[u].ver, elab |-> snaps[u]]

HandleRequest(u) ==
    /\ Received
    /\ reply' = Answer(u)
    /\ UNCHANGED <<project, docs, snaps, threads, ready, shown, edits, opens>>

(* recv_timeout ran into POLL; the round goes on with an idle drain.       *)
PollTimeout ==
    /\ Received
    /\ UNCHANGED <<project, docs, snaps, threads, ready, shown, edits, opens, reply>>

(* The editor closed its end: the loop breaks and the process ends.        *)
Disconnected ==
    /\ pc = "recv"
    /\ pc' = "exited"
    /\ UNCHANGED <<project, docs, snaps, threads, ready, drained, shown, edits, opens, reply>>

(***************************************************************************)
(* An analysis ends: its result is sent, or the thread dies in a panic.    *)
(***************************************************************************)
Panics(job) == project /\ <<job.uri, job.ver>> \in Crashing

Analyzed(job) ==
    /\ pc # "exited"
    /\ job \in threads
    /\ threads' = threads \ {job}
    /\ ready' = IF Panics(job) THEN ready ELSE Append(ready, job)
    /\ UNCHANGED <<project, docs, snaps, pc, drained, shown, edits, opens, reply>>

(***************************************************************************)
(* drain_analysis, one result: skipped when the document is closed or its  *)
(* generation differs, else kept as snapshot and its diagnostics sent.     *)
(***************************************************************************)
\* Mutant: unwrap_or(false), the result of a closed document is kept.
SkipOpenOnly(job) == IsOpen(job.uri) /\ docs[job.uri].gen # job.gen
\* Mutant: the stamp is compared with the one after it.
SkipAll(job) == ~IsOpen(job.uri) \/ docs[job.uri].gen # job.gen + 1
Skip(job) == ~IsOpen(job.uri) \/ docs[job.uri].gen # job.gen

DrainOne ==
    /\ pc = "drain"
    /\ ready # <<>> /\ drained < MaxDrain
    /\ ready' = Tail(ready)
    /\ drained' = drained + 1
    /\ LET job == Head(ready)
       IN IF Skip(job)
          THEN UNCHANGED <<snaps, shown, pc>>
          ELSE /\ snaps' = [snaps EXCEPT ![job.uri] = job.ver]
               /\ \/ shown' = [shown EXCEPT ![job.uri] = job.ver] /\ UNCHANGED pc
                  \/ pc' = "exited" /\ UNCHANGED shown  \* the connection is broken
    /\ UNCHANGED <<project, docs, threads, edits, opens, reply>>

Drained ==
    /\ pc = "drain"
    /\ ready = <<>> \/ drained = MaxDrain
    /\ pc' = "recv"
    /\ UNCHANGED <<project, docs, snaps, threads, ready, drained, shown, edits, opens, reply>>

Init ==
    /\ project \in BOOLEAN
    /\ docs = [u \in Uris |-> NoDoc]
    /\ snaps = [u \in Uris |-> 0]
    /\ threads = {}
    /\ ready = <<>>
    /\ pc = "recv"
    /\ drained = 0
    /\ shown = [u \in Uris |-> 0]
    /\ edits = [u \in Uris |-> 0]
    /\ opens = [u \in Uris |-> 0]
    /\ reply \in {Answer(u) : u \in Uris}

Edit(u) == DidOpen(u) \/ DidChange(u) \/ DidClose(u)

Next ==
    \/ \E u \in Uris : Edit(u) \/ HandleRequest(u)
    \/ \E job \in threads : Analyzed(job)
    \/ PollTimeout \/ Disconnected
    \/ DrainOne \/ Drained

Spec == Init /\ [][Next]_vars

(***************************************************************************)
(* The loop polls whether or not the editor speaks, and the operating      *)
(* system lets every analysis thread run to its end.                       *)
(***************************************************************************)
Fairness ==
    /\ WF_vars(PollTimeout) /\ WF_vars(DrainOne) /\ WF_vars(Drained)
    /\ \A u \in Uris, v \in 1..MaxEdits, g \in 1..MaxEdits :
          WF_vars(Analyzed([uri |-> u, gen |-> g, ver |-> v]))

LiveSpec == Spec /\ Fairness

-----------------------------------------------------------------------------
(***************************************************************************)
(* The type invariant.                                                     *)
(***************************************************************************)
TypeOK ==
    /\ project \in BOOLEAN
    /\ docs \in [Uris -> [ver : 0..MaxEdits, gen : 0..GenMax]]
    /\ snaps \in [Uris -> 0..MaxEdits]
    /\ threads \in SUBSET Jobs
    /\ ready \in Seq(Jobs)
    /\ pc \in {"recv", "drain", "exited"}
    /\ drained \in 0..MaxDrain
    /\ shown \in [Uris -> 0..MaxEdits]
    /\ edits \in [Uris -> 0..MaxEdits]
    /\ opens \in [Uris -> 0..MaxOpens]
    /\ reply \in [uri : Uris, text : 0..MaxEdits, elab : 0..MaxEdits]

InFlight == threads \cup {ready[i] : i \in DOMAIN ready}
Pending(u) == {job \in InFlight : job.uri = u /\ job.ver = docs[u].ver}

(***************************************************************************)
(* An editor never shows diagnostics for a document it has closed, however *)
(* late their analysis ends (didClose and the skip in drain_analysis).     *)
(***************************************************************************)
ClosedShowsNothing == \A u \in Uris : ~IsOpen(u) => shown[u] = 0 /\ snaps[u] = 0

(***************************************************************************)
(* Stale background work is discarded: what drain_analysis publishes is of *)
(* the text the document has at that moment.                               *)
(***************************************************************************)
PublishesCurrent(u) == shown'[u] \in {shown[u], 0, docs[u].ver}
StaleDiscarded == [][\A u \in Uris : PublishesCurrent(u)]_vars

(***************************************************************************)
(* The same for the documents that were opened once only.                  *)
(***************************************************************************)
StaleDiscardedFirst == [][\A u \in Uris : opens[u] <= 1 => PublishesCurrent(u)]_vars

(***************************************************************************)
(* No result is lost: an open document opened once shows the diagnostics   *)
(* of its present text, and requests are answered from that text's         *)
(* elaboration, unless the analysis of that text is still to come, died,   *)
(* or is never made (no file: location in a project).                      *)
(***************************************************************************)
ResultDue(u) == <<u, docs[u].ver>> \notin Crashing /\ (project => u \in FileUris)

NoResultLost ==
    \A u \in Uris :
        /\ pc # "exited" /\ IsOpen(u) /\ opens[u] <= 1 /\ ResultDue(u)
        /\ Pending(u) = {}
        => shown[u] = docs[u].ver /\ Answer(u).elab = Answer(u).text

(***************************************************************************)
(* An answer never mixes a text with the elaboration of a later one, and   *)
(* what the editor shows is the snapshot its requests are answered from.   *)
(***************************************************************************)
AnswersBehindText ==
    /\ reply.elab <= reply.text
    /\ pc # "exited" => shown = snaps

(***************************************************************************)
(* When the editor stops typing in a document it opened once it gets the   *)
(* diagnostics of what it typed, and they stay.                            *)
(***************************************************************************)
DiagnosticsArrive ==
    \A u \in Uris, v \in 1..MaxEdits :
        docs[u].ver = v /\ opens[u] = 1 /\ ResultDue(u)
            ~> shown[u] = v \/ docs[u].ver # v \/ pc = "exited"

=============================================================================
