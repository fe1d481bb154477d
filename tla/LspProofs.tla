----------------------------- MODULE LspProofs -----------------------------
(***************************************************************************)
(* Theorems about the language server's session, for any number of         *)
(* documents, edits and threads.                                           *)
(*                                                                         *)
(* The argument rests on one fact: for a document that was opened once the *)
(* generation counts its texts, so that equal stamps mean equal texts.     *)
(***************************************************************************)
EXTENDS LspSession, TLAPS

-----------------------------------------------------------------------------
(***************************************************************************)
(* The elements of a channel after a send and after a receive.             *)
(***************************************************************************)
LEMMA SendElements ==
    ASSUME NEW S, NEW s \in Seq(S), NEW e \in S
    PROVE  /\ Append(s, e) \in Seq(S)
           /\ {Append(s, e)[i] : i \in DOMAIN Append(s, e)} = {s[i] : i \in DOMAIN s} \cup {e}
<1>1. Append(s, e) \in Seq(S)
  OBVIOUS
<1>2. /\ DOMAIN s = 1..Len(s)
      /\ DOMAIN Append(s, e) = 1..(Len(s) + 1)
      /\ \A i \in 1..Len(s) : Append(s, e)[i] = s[i]
      /\ Append(s, e)[Len(s) + 1] = e
      /\ Len(s) \in Nat
  OBVIOUS
<1>3. ASSUME NEW x
      PROVE  x \in {Append(s, e)[i] : i \in DOMAIN Append(s, e)}
                <=> x \in {s[i] : i \in DOMAIN s} \cup {e}
  <2>1. ASSUME NEW i \in 1..(Len(s) + 1), x = Append(s, e)[i]
        PROVE  x \in {s[j] : j \in DOMAIN s} \cup {e}
    <3>1. i \in 1..Len(s) \/ i = Len(s) + 1
      BY <1>2
    <3> QED
      BY <1>2, <2>1, <3>1
  <2>2. ASSUME NEW i \in 1..Len(s), x = s[i]
        PROVE  \E j \in 1..(Len(s) + 1) : x = Append(s, e)[j]
    <3>1. i \in 1..(Len(s) + 1)
      BY <1>2
    <3> QED
      BY <1>2, <2>2, <3>1
  <2>3. Len(s) + 1 \in 1..(Len(s) + 1)
    BY <1>2
  <2> QED
    BY <1>2, <2>1, <2>2, <2>3
<1> QED
  BY <1>1, <1>3

LEMMA ReceiveElements ==
    ASSUME NEW S, NEW s \in Seq(S), s # <<>>
    PROVE  /\ Tail(s) \in Seq(S)
           /\ Head(s) \in S
           /\ {s[i] : i \in DOMAIN s} = {Head(s)} \cup {Tail(s)[i] : i \in DOMAIN Tail(s)}
<1>1. Tail(s) \in Seq(S) /\ Head(s) \in S
  OBVIOUS
<1>2. /\ DOMAIN s = 1..Len(s)
      /\ DOMAIN Tail(s) = 1..(Len(s) - 1)
      /\ \A i \in 1..(Len(s) - 1) : Tail(s)[i] = s[i + 1]
      /\ Head(s) = s[1]
      /\ Len(s) \in Nat /\ Len(s) > 0
  OBVIOUS
<1>3. ASSUME NEW x
      PROVE  x \in {s[i] : i \in DOMAIN s}
                <=> x \in {Head(s)} \cup {Tail(s)[i] : i \in DOMAIN Tail(s)}
  <2>1. ASSUME NEW i \in 1..Len(s), x = s[i], i # 1
        PROVE  \E j \in 1..(Len(s) - 1) : x = Tail(s)[j]
    <3>1. i - 1 \in 1..(Len(s) - 1) /\ (i - 1) + 1 = i
      BY <1>2, <2>1
    <3> QED
      BY <1>2, <2>1, <3>1
  <2>2. ASSUME NEW j \in 1..(Len(s) - 1), x = Tail(s)[j]
        PROVE  \E i \in 1..Len(s) : x = s[i]
    <3>1. j + 1 \in 1..Len(s)
      BY <1>2
    <3> QED
      BY <1>2, <2>2, <3>1
  <2>3. 1 \in 1..Len(s)
    BY <1>2
  <2> QED
    BY <1>2, <2>1, <2>2, <2>3
<1> QED
  BY <1>1, <1>3

-----------------------------------------------------------------------------
(***************************************************************************)
(* The inductive invariant.                                                *)
(***************************************************************************)
\* The entry of an open document holds its latest text; a job is of a text the document had.
LatestText ==
    \A u \in Uris :
        /\ IsOpen(u) => docs[u].ver = edits[u] /\ docs[u].ver > 0 /\ opens[u] > 0
        /\ opens[u] = 0 => edits[u] = 0
KnownTexts == \A job \in InFlight : job.ver <= edits[job.uri]

\* While a document has been opened once, generations count its texts.
GenIsText ==
    /\ \A u \in Uris : IsOpen(u) /\ opens[u] <= 1 => docs[u].gen = docs[u].ver
    /\ \A job \in InFlight : opens[job.uri] <= 1 => job.gen = job.ver

SnapsBehind == \A u \in Uris : snaps[u] <= docs[u].ver

Inv == /\ TypeOK
       /\ LatestText /\ KnownTexts /\ GenIsText /\ SnapsBehind
       /\ ClosedShowsNothing /\ AnswersBehindText /\ NoResultLost

LEMMA InitInv == Init => Inv
<1> SUFFICES ASSUME Init PROVE Inv
  OBVIOUS
<1> USE LspAssumption DEF LspAssumption, Init
<1>1. TypeOK
  BY DEF TypeOK, NoDoc, Answer, Jobs
<1>2. InFlight = {}
  BY DEF InFlight
<1>3. LatestText /\ KnownTexts /\ GenIsText /\ SnapsBehind
  BY <1>2 DEF LatestText, KnownTexts, GenIsText, SnapsBehind, IsOpen, NoDoc
<1>4. ClosedShowsNothing /\ AnswersBehindText /\ NoResultLost
  BY DEF ClosedShowsNothing, AnswersBehindText, NoResultLost, IsOpen, NoDoc, Answer
<1> QED
  BY <1>1, <1>3, <1>4 DEF Inv

-----------------------------------------------------------------------------
(***************************************************************************)
(* Scheduling adds the job to those in flight, or no result is due.        *)
(***************************************************************************)
LEMMA Schedule ==
    ASSUME TypeOK, NEW job \in Jobs, ScheduleAnalysis(job)
    PROVE  /\ threads' \in SUBSET Jobs /\ ready' \in Seq(Jobs)
           /\ InFlight \subseteq InFlight'
           /\ InFlight' \subseteq InFlight \cup {job}
           /\ (project => job.uri \in FileUris) => job \in InFlight'
<1>1. threads \in SUBSET Jobs /\ ready \in Seq(Jobs)
  BY DEF TypeOK
<1>2. CASE project
  BY <1>1, <1>2 DEF ScheduleAnalysis, InFlight
<1>3. CASE ~project
  <2>1. ready' = Append(ready, job) /\ threads' = threads
    BY <1>3 DEF ScheduleAnalysis
  <2>2. /\ ready' \in Seq(Jobs)
        /\ {ready'[i] : i \in DOMAIN ready'} = {ready[i] : i \in DOMAIN ready} \cup {job}
    BY <1>1, <2>1, SendElements
  <2> QED
    BY <1>1, <2>1, <2>2 DEF InFlight
<1> QED
  BY <1>2, <1>3

(***************************************************************************)
(* A new text: opened for the first time or again, or changed.             *)
(***************************************************************************)
LEMMA EditedInv ==
    ASSUME Inv, NEW u \in Uris, NEW gen \in 1..GenMax, Received, NewText(u, gen),
           UNCHANGED <<project, snaps, shown, reply>>,
           opens' \in [Uris -> 0..MaxOpens],
           \A v \in Uris : v # u => opens'[v] = opens[v],
           opens'[u] >= opens[u], opens'[u] > 0,
           opens'[u] <= 1 => gen = edits[u] + 1,
           IsOpen(u) \/ snaps[u] = 0
    PROVE  Inv'
<1> USE LspAssumption DEF LspAssumption
<1> DEFINE job == [uri |-> u, gen |-> gen, ver |-> edits[u] + 1]
<1>1. /\ edits[u] \in 0..MaxEdits /\ edits[u] < MaxEdits /\ edits[u] + 1 \in 1..MaxEdits
      /\ job \in Jobs
  <2>1. edits[u] \in 0..MaxEdits /\ edits[u] < MaxEdits
    BY DEF Inv, TypeOK, NewText
  <2>2. edits[u] + 1 \in 1..MaxEdits
    BY <2>1
  <2> QED
    BY <2>1, <2>2 DEF Jobs
<1>2. /\ docs' = [docs EXCEPT ![u] = [ver |-> edits[u] + 1, gen |-> gen]]
      /\ edits' = [edits EXCEPT ![u] = @ + 1]
      /\ ScheduleAnalysis(job)
      /\ pc = "recv" /\ pc' = "drain" /\ drained' = 0
  BY DEF NewText, Received
<1> HIDE DEF job
<1>3. /\ threads' \in SUBSET Jobs /\ ready' \in Seq(Jobs)
      /\ InFlight \subseteq InFlight'
      /\ InFlight' \subseteq InFlight \cup {job}
      /\ (project => job.uri \in FileUris) => job \in InFlight'
  BY <1>1, <1>2, Schedule DEF Inv
<1>4. job.uri = u /\ job.gen = gen /\ job.ver = edits[u] + 1
  BY DEF job
<1>0. /\ TypeOK /\ LatestText /\ KnownTexts /\ GenIsText /\ SnapsBehind
      /\ ClosedShowsNothing /\ AnswersBehindText /\ NoResultLost
  BY DEF Inv
<1>5. TypeOK'
  <2>1. docs' \in [Uris -> [ver : 0..MaxEdits, gen : 0..GenMax]]
    <3>1. [ver |-> edits[u] + 1, gen |-> gen] \in [ver : 0..MaxEdits, gen : 0..GenMax]
      BY <1>1
    <3> QED
      BY <1>0, <1>2, <3>1 DEF TypeOK
  <2>2. edits' \in [Uris -> 0..MaxEdits]
    <3>1. edits \in [Uris -> 0..MaxEdits]
      BY <1>0 DEF TypeOK
    <3>2. edits[u] + 1 \in 0..MaxEdits /\ edits' = [edits EXCEPT ![u] = edits[u] + 1]
      BY <1>1, <1>2
    <3> HIDE <1>2
    <3> QED
      BY <3>1, <3>2
  <2>3. pc' \in {"recv", "drain", "exited"}
    BY <1>2
  <2>4. drained' \in 0..MaxDrain
    BY <1>2
  <2> QED
    BY <1>0, <1>3, <2>1, <2>2, <2>3, <2>4 DEF TypeOK
<1>6. /\ docs'[u] = [ver |-> edits[u] + 1, gen |-> gen]
      /\ edits'[u] = edits[u] + 1
      /\ \A v \in Uris : v # u => docs'[v] = docs[v] /\ edits'[v] = edits[v]
  BY <1>2 DEF Inv, TypeOK
<1>7. \A j \in InFlight : j \in Jobs
  <2>1. \A i \in DOMAIN ready : ready[i] \in Jobs
    <3>1. ready \in Seq(Jobs)
      BY <1>0 DEF TypeOK
    <3> QED
      BY <3>1
  <2>2. threads \subseteq Jobs
    BY <1>0 DEF TypeOK
  <2> QED
    BY <2>1, <2>2 DEF InFlight
<1>8. LatestText'
  <2>1. ASSUME NEW v \in Uris
        PROVE  /\ IsOpen(v)' => docs'[v].ver = edits'[v] /\ docs'[v].ver > 0 /\ opens'[v] > 0
               /\ opens'[v] = 0 => edits'[v] = 0
    <3>1. CASE v = u
      BY <1>1, <1>6, <3>1
    <3>2. CASE v # u
      <4>1. docs'[v] = docs[v] /\ edits'[v] = edits[v] /\ opens'[v] = opens[v]
        BY <1>6, <3>2
      <4> QED
        BY <1>0, <4>1 DEF LatestText, IsOpen
    <3> QED
      BY <3>1, <3>2
  <2> QED
    BY <2>1 DEF LatestText
<1>9. KnownTexts'
  <2>1. \A j \in InFlight : j.ver <= edits[j.uri] /\ j.uri \in Uris /\ j.ver \in Nat
    BY <1>0, <1>7 DEF KnownTexts, Jobs
  <2>2. ASSUME NEW j \in InFlight PROVE j.ver <= edits'[j.uri]
    <3>1. CASE j.uri = u
      BY <1>1, <1>6, <2>1, <3>1
    <3>2. CASE j.uri # u
      BY <1>6, <2>1, <3>2
    <3> QED
      BY <3>1, <3>2
  <2>3. job.ver <= edits'[job.uri]
    BY <1>1, <1>4, <1>6
  <2> QED
    BY <1>3, <2>2, <2>3 DEF KnownTexts
<1>10. GenIsText'
  <2>1. ASSUME NEW v \in Uris, IsOpen(v)', opens'[v] <= 1
        PROVE  docs'[v].gen = docs'[v].ver
    <3>1. CASE v = u
      BY <1>6, <2>1, <3>1
    <3>2. CASE v # u
      BY <1>0, <1>6, <2>1, <3>2 DEF GenIsText, IsOpen
    <3> QED
      BY <3>1, <3>2
  <2>2. ASSUME NEW j \in InFlight, opens'[j.uri] <= 1
        PROVE  j.gen = j.ver
    <3>1. j.uri \in Uris /\ j.ver \in 1..MaxEdits /\ j.ver <= edits[j.uri]
      BY <1>0, <1>7 DEF KnownTexts, Jobs
    <3>2. opens[j.uri] <= 1
      <4>1. opens[j.uri] \in 0..MaxOpens /\ opens[u] \in 0..MaxOpens
        BY <1>0, <3>1 DEF TypeOK
      <4>2. CASE j.uri = u
        BY <2>2, <4>1, <4>2
      <4>3. CASE j.uri # u
        BY <2>2, <3>1, <4>3
      <4> QED
        BY <4>2, <4>3
    <3> QED
      BY <1>0, <3>2 DEF GenIsText
  <2>3. opens'[u] <= 1 => job.gen = job.ver
    BY <1>4
  <2> QED
    BY <1>3, <1>4, <2>1, <2>2, <2>3 DEF GenIsText
<1>11. SnapsBehind'
  <2>1. snaps[u] <= docs[u].ver /\ docs[u].ver <= edits[u]
    <3>1. snaps[u] <= docs[u].ver
      BY <1>0 DEF SnapsBehind
    <3>2. CASE IsOpen(u)
      BY <1>0, <1>1, <3>1, <3>2 DEF LatestText
    <3>3. CASE ~IsOpen(u)
      BY <1>1, <3>1, <3>3 DEF IsOpen, NoDoc
    <3> QED
      BY <3>2, <3>3
  <2>2. \A v \in Uris : snaps[v] \in Nat /\ docs[v].ver \in Nat
    BY <1>0 DEF TypeOK
  <2>3. snaps[u] <= edits[u] + 1
    BY <1>1, <2>1, <2>2
  <2> QED
    BY <1>0, <1>6, <2>3 DEF SnapsBehind
<1>12. ClosedShowsNothing'
  BY <1>1, <1>6 DEF Inv, ClosedShowsNothing, IsOpen, NoDoc
<1>13. AnswersBehindText'
  BY <1>2 DEF Inv, AnswersBehindText
<1>14. NoResultLost'
  <2> SUFFICES ASSUME NEW v \in Uris,
                      IsOpen(v)', opens'[v] <= 1, ResultDue(v)', Pending(v)' = {}
               PROVE  shown'[v] = docs'[v].ver /\ Answer(v).elab' = Answer(v).text'
    BY DEF NoResultLost
  <2>1. CASE v = u
    <3>1. job \in InFlight'
      BY <1>3, <1>4, <2>1 DEF ResultDue
    <3>2. job.uri = v /\ job.ver = docs'[v].ver
      BY <1>4, <1>6, <2>1
    <3> QED
      BY <3>1, <3>2 DEF Pending
  <2>2. CASE v # u
    <3>1. docs'[v] = docs[v] /\ opens'[v] = opens[v]
      BY <1>6, <2>2
    <3>2. Pending(v) = {}
      BY <1>3, <3>1 DEF Pending
    <3>3. IsOpen(v) /\ ResultDue(v)
      BY <3>1 DEF IsOpen, ResultDue
    <3>4. shown[v] = docs[v].ver /\ Answer(v).elab = Answer(v).text
      BY <1>2, <3>1, <3>2, <3>3 DEF Inv, NoResultLost
    <3> QED
      BY <3>1, <3>4 DEF Answer
  <2> QED
    BY <2>1, <2>2
<1> QED
  BY <1>5, <1>8, <1>9, <1>10, <1>11, <1>12, <1>13, <1>14 DEF Inv

LEMMA DidOpenInv == ASSUME Inv, NEW u \in Uris, DidOpen(u) PROVE Inv'
<1> USE LspAssumption DEF LspAssumption
<1>1. /\ Received /\ ~IsOpen(u) /\ NewText(u, 1)
      /\ opens' = [opens EXCEPT ![u] = @ + 1] /\ opens[u] < MaxOpens
      /\ UNCHANGED <<project, snaps, shown, reply>>
  BY DEF DidOpen, NextGen
<1>2. opens \in [Uris -> 0..MaxOpens] /\ opens[u] \in 0..MaxOpens
  BY DEF Inv, TypeOK
<1>3. /\ opens'[u] = opens[u] + 1 /\ \A v \in Uris : v # u => opens'[v] = opens[v]
      /\ opens' \in [Uris -> 0..MaxOpens]
      /\ opens'[u] >= opens[u] /\ opens'[u] > 0
  BY <1>1, <1>2
<1>4. opens'[u] <= 1 => 1 = edits[u] + 1
  <2>1. opens[u] = 0 => edits[u] = 0
    BY DEF Inv, LatestText
  <2> QED
    BY <1>2, <1>3, <2>1
<1>5. snaps[u] = 0
  BY <1>1 DEF Inv, ClosedShowsNothing
<1>6. 1 \in 1..GenMax
  OBVIOUS
<1> QED
  BY <1>1, <1>3, <1>4, <1>5, <1>6, EditedInv

LEMMA DidChangeInv == ASSUME Inv, NEW u \in Uris, DidChange(u) PROVE Inv'
<1> USE LspAssumption DEF LspAssumption
<1> DEFINE gen == NextGen(docs[u].gen)
<1>1. /\ Received /\ IsOpen(u) /\ NewText(u, gen)
      /\ UNCHANGED <<project, snaps, shown, reply>> /\ opens' = opens
  BY DEF DidChange
<1>2. docs[u] \in [ver : 0..MaxEdits, gen : 0..GenMax] /\ opens \in [Uris -> 0..MaxOpens]
  BY DEF Inv, TypeOK
<1>3. docs[u].ver = edits[u] /\ opens[u] > 0
  BY <1>1 DEF Inv, LatestText
<1>4. edits[u] < MaxEdits
  BY <1>1 DEF NewText
<1>5. gen \in 1..GenMax
  BY <1>2 DEF NextGen
<1>6. opens[u] <= 1 => gen = edits[u] + 1
  <2>1. opens[u] <= 1 => docs[u].gen = docs[u].ver
    BY <1>1 DEF Inv, GenIsText
  <2> QED
    BY <1>2, <1>3, <1>4, <2>1 DEF NextGen
<1> HIDE DEF gen
<1> QED
  BY <1>1, <1>2, <1>3, <1>5, <1>6, EditedInv

LEMMA DidCloseInv == ASSUME Inv, NEW u \in Uris, DidClose(u) PROVE Inv'
<1> USE LspAssumption DEF LspAssumption
<1>0. /\ TypeOK /\ LatestText /\ KnownTexts /\ GenIsText /\ SnapsBehind
      /\ ClosedShowsNothing /\ AnswersBehindText /\ NoResultLost
  BY DEF Inv
<1>1. /\ docs' = [docs EXCEPT ![u] = NoDoc]
      /\ snaps' = [snaps EXCEPT ![u] = 0] /\ shown' = [shown EXCEPT ![u] = 0]
      /\ UNCHANGED <<project, threads, ready, edits, opens, reply>>
      /\ pc = "recv" /\ pc' = "drain" /\ drained' = 0
  BY DEF DidClose, Received
<1>2. /\ docs'[u] = NoDoc /\ snaps'[u] = 0 /\ shown'[u] = 0
      /\ \A v \in Uris : v # u => docs'[v] = docs[v] /\ snaps'[v] = snaps[v] /\ shown'[v] = shown[v]
  BY <1>0, <1>1 DEF TypeOK
<1>3. TypeOK'
  <2>1. docs' \in [Uris -> [ver : 0..MaxEdits, gen : 0..GenMax]]
    BY <1>0, <1>1 DEF TypeOK, NoDoc
  <2>2. snaps' \in [Uris -> 0..MaxEdits] /\ shown' \in [Uris -> 0..MaxEdits]
    BY <1>0, <1>1, SMTT(40) DEF TypeOK
  <2>3. pc' \in {"recv", "drain", "exited"}
    BY <1>1
  <2>4. drained' \in 0..MaxDrain
    BY <1>1
  <2> QED
    BY <1>0, <1>1, <2>1, <2>2, <2>3, <2>4 DEF TypeOK
<1>4. InFlight' = InFlight
  BY <1>1 DEF InFlight
<1>5. LatestText' /\ KnownTexts' /\ GenIsText'
  <2>1. LatestText'
    BY <1>0, <1>1, <1>2 DEF LatestText, IsOpen
  <2>2. KnownTexts'
    BY <1>0, <1>1, <1>4 DEF KnownTexts
  <2>3. GenIsText'
    BY <1>0, <1>1, <1>2, <1>4 DEF GenIsText, IsOpen
  <2> QED
    BY <2>1, <2>2, <2>3
<1>6. SnapsBehind' /\ ClosedShowsNothing'
  <2>1. SnapsBehind'
    BY <1>0, <1>2 DEF SnapsBehind, NoDoc
  <2>2. ClosedShowsNothing'
    BY <1>0, <1>2 DEF ClosedShowsNothing, IsOpen
  <2> QED
    BY <2>1, <2>2
<1>7. AnswersBehindText'
  BY <1>0, <1>1 DEF AnswersBehindText
<1>8. NoResultLost'
  <2> SUFFICES ASSUME NEW v \in Uris,
                      IsOpen(v)', opens'[v] <= 1, ResultDue(v)', Pending(v)' = {}
               PROVE  shown'[v] = docs'[v].ver /\ Answer(v).elab' = Answer(v).text'
    BY DEF NoResultLost
  <2>1. v # u
    BY <1>2 DEF IsOpen
  <2>2. docs'[v] = docs[v] /\ snaps'[v] = snaps[v] /\ shown'[v] = shown[v] /\ opens'[v] = opens[v]
    BY <1>1, <1>2, <2>1
  <2>3. IsOpen(v) /\ ResultDue(v) /\ Pending(v) = {}
    BY <1>1, <1>4, <2>2 DEF IsOpen, ResultDue, Pending
  <2>4. shown[v] = docs[v].ver /\ Answer(v).elab = Answer(v).text
    BY <1>0, <1>1, <2>2, <2>3 DEF NoResultLost
  <2> QED
    BY <2>2, <2>4 DEF Answer
<1> QED
  BY <1>3, <1>5, <1>6, <1>7, <1>8 DEF Inv

(***************************************************************************)
(* The steps that leave documents, jobs and what is shown alone.           *)
(***************************************************************************)
LEMMA QuietInv ==
    ASSUME Inv, UNCHANGED <<project, docs, snaps, threads, ready, shown, edits, opens>>,
           pc' \in {"recv", "drain", "exited"}, pc' = pc \/ pc # "exited",
           drained' \in 0..MaxDrain,
           reply' = reply \/ \E u \in Uris : reply' = Answer(u)
    PROVE  Inv'
<1>0. /\ TypeOK /\ LatestText /\ KnownTexts /\ GenIsText /\ SnapsBehind
      /\ ClosedShowsNothing /\ AnswersBehindText /\ NoResultLost
  BY DEF Inv
<1>1. reply' \in [uri : Uris, text : 0..MaxEdits, elab : 0..MaxEdits] /\ reply'.elab <= reply'.text
  <2>1. CASE reply' = reply
    BY <1>0, <2>1 DEF TypeOK, AnswersBehindText
  <2>2. ASSUME NEW u \in Uris, reply' = Answer(u)
        PROVE  <1>1!1 /\ <1>1!2
    <3>1. snaps[u] \in 0..MaxEdits /\ docs[u].ver \in 0..MaxEdits /\ snaps[u] <= docs[u].ver
      BY <1>0 DEF TypeOK, SnapsBehind
    <3> QED
      BY <2>2, <3>1 DEF Answer
  <2> QED
    BY <2>1, <2>2
<1>2. TypeOK'
  BY <1>0, <1>1 DEF TypeOK
<1>3. LatestText' /\ KnownTexts' /\ GenIsText' /\ SnapsBehind' /\ ClosedShowsNothing'
  BY <1>0 DEF LatestText, KnownTexts, GenIsText, SnapsBehind, ClosedShowsNothing, IsOpen, InFlight
<1>4. AnswersBehindText'
  BY <1>0, <1>1 DEF AnswersBehindText
<1>5. NoResultLost'
  BY <1>0 DEF NoResultLost, IsOpen, ResultDue, Pending, InFlight, Answer
<1> QED
  BY <1>2, <1>3, <1>4, <1>5 DEF Inv

(***************************************************************************)
(* An analysis ends.                                                       *)
(***************************************************************************)
LEMMA AnalyzedInv == ASSUME Inv, NEW job \in threads, Analyzed(job) PROVE Inv'
<1>0. /\ TypeOK /\ LatestText /\ KnownTexts /\ GenIsText /\ SnapsBehind
      /\ ClosedShowsNothing /\ AnswersBehindText /\ NoResultLost
  BY DEF Inv
<1>1. /\ threads' = threads \ {job}
      /\ ready' = IF Panics(job) THEN ready ELSE Append(ready, job)
      /\ UNCHANGED <<project, docs, snaps, pc, drained, shown, edits, opens, reply>>
      /\ pc # "exited"
  BY DEF Analyzed
<1>2. threads \subseteq Jobs /\ ready \in Seq(Jobs) /\ job \in Jobs
  BY <1>0 DEF TypeOK
<1>3. /\ ready' \in Seq(Jobs) /\ InFlight' \subseteq InFlight
      /\ InFlight \subseteq InFlight' \cup {job}
      /\ ~Panics(job) => InFlight' = InFlight
  <2>1. CASE Panics(job)
    BY <1>1, <1>2, <2>1 DEF InFlight
  <2>2. CASE ~Panics(job)
    <3>1. ready' = Append(ready, job)
      BY <1>1, <2>2
    <3>2. /\ ready' \in Seq(Jobs)
          /\ {ready'[i] : i \in DOMAIN ready'} = {ready[i] : i \in DOMAIN ready} \cup {job}
      BY <1>2, <3>1, SendElements
    <3> QED
      BY <1>1, <1>2, <3>2 DEF InFlight
  <2> QED
    BY <2>1, <2>2
<1>4. TypeOK'
  BY <1>0, <1>1, <1>2, <1>3 DEF TypeOK
<1>5. LatestText' /\ SnapsBehind' /\ ClosedShowsNothing' /\ AnswersBehindText'
  BY <1>0, <1>1 DEF LatestText, SnapsBehind, ClosedShowsNothing, AnswersBehindText, IsOpen
<1>6. KnownTexts' /\ GenIsText'
  BY <1>0, <1>1, <1>3 DEF KnownTexts, GenIsText, IsOpen
<1>7. NoResultLost'
  <2> SUFFICES ASSUME NEW v \in Uris,
                      IsOpen(v)', opens'[v] <= 1, ResultDue(v)', Pending(v)' = {}
               PROVE  shown'[v] = docs'[v].ver /\ Answer(v).elab' = Answer(v).text'
    BY DEF NoResultLost
  <2>1. IsOpen(v) /\ opens[v] <= 1 /\ ResultDue(v)
    BY <1>1 DEF IsOpen, ResultDue
  <2>2. Pending(v) = {}
    <3>1. ASSUME NEW j \in Pending(v) PROVE FALSE
      <4>1. j \in InFlight /\ j.uri = v /\ j.ver = docs[v].ver
        BY DEF Pending
      <4>2. j \notin InFlight'
        BY <1>1, <4>1 DEF Pending
      <4>3. j = job /\ Panics(job)
        BY <1>3, <4>1, <4>2
      <4> QED
        BY <2>1, <4>1, <4>3 DEF Panics, ResultDue
    <3> QED
      BY <3>1
  <2>3. shown[v] = docs[v].ver /\ Answer(v).elab = Answer(v).text
    BY <1>0, <1>1, <2>1, <2>2 DEF NoResultLost
  <2> QED
    BY <1>1, <2>3 DEF Answer
<1> QED
  BY <1>4, <1>5, <1>6, <1>7 DEF Inv

(***************************************************************************)
(* A result is drained.  If it is not skipped, and its document was opened *)
(* once, it is of the text the document has.                               *)
(***************************************************************************)
LEMMA DrainedIsCurrent ==
    ASSUME Inv, ready # <<>>, ~Skip(Head(ready)), opens[Head(ready).uri] <= 1
    PROVE  Head(ready).ver = docs[Head(ready).uri].ver
<1>1. ready \in Seq(Jobs)
  BY DEF Inv, TypeOK
<1>2. Head(ready) \in InFlight /\ Head(ready) \in Jobs
  BY <1>1, ReceiveElements DEF InFlight
<1>3. Head(ready).gen = Head(ready).ver
  BY <1>2 DEF Inv, GenIsText
<1>4. IsOpen(Head(ready).uri) /\ docs[Head(ready).uri].gen = Head(ready).gen
  BY DEF Skip
<1> QED
  BY <1>2, <1>3, <1>4 DEF Inv, GenIsText, Jobs

LEMMA DrainOneInv == ASSUME Inv, DrainOne PROVE Inv'
<1> USE LspAssumption DEF LspAssumption
<1> DEFINE job == Head(ready)
<1>0. /\ TypeOK /\ LatestText /\ KnownTexts /\ GenIsText /\ SnapsBehind
      /\ ClosedShowsNothing /\ AnswersBehindText /\ NoResultLost
  BY DEF Inv
<1>1. /\ pc = "drain" /\ ready # <<>> /\ drained < MaxDrain
      /\ ready' = Tail(ready) /\ drained' = drained + 1
      /\ UNCHANGED <<project, docs, threads, edits, opens, reply>>
  BY DEF DrainOne
<1>2. \/ Skip(job) /\ UNCHANGED <<snaps, shown, pc>>
      \/ /\ ~Skip(job) /\ snaps' = [snaps EXCEPT ![job.uri] = job.ver]
         /\ \/ shown' = [shown EXCEPT ![job.uri] = job.ver] /\ pc' = pc
            \/ pc' = "exited" /\ shown' = shown
  BY DEF DrainOne
<1>3. ready \in Seq(Jobs)
  BY <1>0 DEF TypeOK
<1>4. /\ ready' \in Seq(Jobs) /\ job \in Jobs /\ job \in InFlight
      /\ InFlight' \subseteq InFlight /\ InFlight \subseteq InFlight' \cup {job}
  BY <1>1, <1>3, ReceiveElements DEF InFlight
<1>5. job.uri \in Uris /\ job.ver \in 1..MaxEdits /\ job.ver <= edits[job.uri]
  BY <1>0, <1>4 DEF Jobs, KnownTexts
<1>6. ~Skip(job) => IsOpen(job.uri) /\ job.ver <= docs[job.uri].ver
  BY <1>0, <1>5 DEF Skip, LatestText
<1>7. ~Skip(job) /\ opens[job.uri] <= 1 => job.ver = docs[job.uri].ver
  BY <1>1, DrainedIsCurrent
<1> HIDE DEF job
<1>8. TypeOK'
  <2>1. drained' \in 0..MaxDrain
    BY <1>0, <1>1 DEF TypeOK
  <2>2. snaps' \in [Uris -> 0..MaxEdits] /\ shown' \in [Uris -> 0..MaxEdits]
    <3>1. job.ver \in 0..MaxEdits
      BY <1>5
    <3>2. snaps \in [Uris -> 0..MaxEdits] /\ shown \in [Uris -> 0..MaxEdits]
      BY <1>0 DEF TypeOK
    <3>3. snaps' \in [Uris -> 0..MaxEdits]
      BY <1>2, <3>1, <3>2
    <3>4. shown' \in [Uris -> 0..MaxEdits]
      BY <1>2, <3>1, <3>2
    <3> QED
      BY <3>3, <3>4
  <2>3. pc' \in {"recv", "drain", "exited"}
    BY <1>0, <1>2 DEF TypeOK
  <2> QED
    BY <1>0, <1>1, <1>4, <2>1, <2>2, <2>3 DEF TypeOK
<1>9. /\ \A v \in Uris : \/ snaps'[v] = snaps[v]
                         \/ v = job.uri /\ snaps'[v] = job.ver /\ ~Skip(job)
      /\ \A v \in Uris : \/ shown'[v] = shown[v]
                         \/ v = job.uri /\ shown'[v] = job.ver /\ ~Skip(job)
  <2>1. snaps \in [Uris -> 0..MaxEdits] /\ shown \in [Uris -> 0..MaxEdits]
    BY <1>0 DEF TypeOK
  <2>2. CASE UNCHANGED <<snaps, shown>>
    BY <2>2
  <2>3. CASE ~Skip(job) /\ snaps' = [snaps EXCEPT ![job.uri] = job.ver] /\ UNCHANGED shown
    BY <2>1, <2>3
  <2>4. CASE /\ ~Skip(job) /\ snaps' = [snaps EXCEPT ![job.uri] = job.ver]
             /\ shown' = [shown EXCEPT ![job.uri] = job.ver]
    BY <2>1, <2>4
  <2> QED
    BY <1>2, <2>2, <2>3, <2>4
<1>10. LatestText' /\ KnownTexts' /\ GenIsText'
  BY <1>0, <1>1, <1>4 DEF LatestText, KnownTexts, GenIsText, IsOpen
<1>11. SnapsBehind' /\ ClosedShowsNothing'
  BY <1>0, <1>1, <1>6, <1>9 DEF SnapsBehind, ClosedShowsNothing, IsOpen
<1>12. AnswersBehindText'
  <2>1. pc' # "exited" => shown' = snaps'
    BY <1>0, <1>1, <1>2 DEF AnswersBehindText
  <2> QED
    BY <1>0, <1>1, <2>1 DEF AnswersBehindText
<1>13. NoResultLost'
  <2> SUFFICES ASSUME NEW v \in Uris, pc' # "exited",
                      IsOpen(v)', opens'[v] <= 1, ResultDue(v)', Pending(v)' = {}
               PROVE  shown'[v] = docs'[v].ver /\ Answer(v).elab' = Answer(v).text'
    BY DEF NoResultLost
  <2>1. IsOpen(v) /\ opens[v] <= 1 /\ ResultDue(v) /\ shown' = snaps'
    BY <1>1, <1>12 DEF IsOpen, ResultDue, AnswersBehindText
  <2>2. snaps'[v] = docs[v].ver
    <3>1. CASE Pending(v) = {}
      <4>1. snaps[v] = docs[v].ver
        BY <1>0, <1>1, <2>1, <3>1 DEF NoResultLost, Answer
      <4> QED
        BY <1>7, <1>9, <2>1, <4>1
    <3>2. CASE Pending(v) # {}
      <4>1. PICK j \in InFlight : j.uri = v /\ j.ver = docs[v].ver
        BY <3>2 DEF Pending
      <4>2. j \notin InFlight'
        BY <1>1, <4>1 DEF Pending
      <4>3. j = job
        BY <1>4, <4>1, <4>2
      <4>4. job.gen = job.ver /\ docs[v].gen = docs[v].ver
        BY <1>0, <1>4, <2>1, <4>1, <4>3 DEF GenIsText
      <4>5. ~Skip(job)
        BY <2>1, <4>1, <4>3, <4>4 DEF Skip
      <4> QED
        BY <1>0, <1>2, <1>5, <4>1, <4>3, <4>5 DEF TypeOK
    <3> QED
      BY <3>1, <3>2
  <2> QED
    BY <1>1, <2>1, <2>2 DEF Answer
<1> QED
  BY <1>8, <1>10, <1>11, <1>12, <1>13 DEF Inv

-----------------------------------------------------------------------------
LEMMA NextInv == Inv /\ [Next]_vars => Inv'
<1> SUFFICES ASSUME Inv, [Next]_vars PROVE Inv'
  OBVIOUS
<1> USE LspAssumption DEF LspAssumption
<1>0. /\ pc \in {"recv", "drain", "exited"} /\ drained \in 0..MaxDrain
  BY DEF Inv, TypeOK
<1>1. CASE UNCHANGED vars
  BY <1>0, <1>1, QuietInv DEF vars
<1>2. ASSUME NEW u \in Uris, Edit(u) PROVE Inv'
  BY <1>2, DidOpenInv, DidChangeInv, DidCloseInv DEF Edit
<1>3. ASSUME NEW u \in Uris, HandleRequest(u) PROVE Inv'
  BY <1>0, <1>3, QuietInv DEF HandleRequest, Received
<1>4. ASSUME NEW job \in threads, Analyzed(job) PROVE Inv'
  BY <1>4, AnalyzedInv
<1>5. CASE PollTimeout \/ Disconnected \/ Drained
  BY <1>0, <1>5, QuietInv DEF PollTimeout, Disconnected, Drained, Received
<1>6. CASE DrainOne
  BY <1>6, DrainOneInv
<1> QED
  BY <1>1, <1>2, <1>3, <1>4, <1>5, <1>6 DEF Next

(***************************************************************************)
(* The invariant holds of every behaviour.                                 *)
(***************************************************************************)
THEOREM Invariant == Spec => []Inv
<1> QED
  BY InitInv, NextInv, PTL DEF Spec

(***************************************************************************)
(* Every variable of the session keeps its type (run).                     *)
(***************************************************************************)
THEOREM TypeCorrect == Spec => []TypeOK
<1>1. Inv => TypeOK
  BY DEF Inv
<1> QED
  BY Invariant, <1>1, PTL

(***************************************************************************)
(* A closed document shows nothing (didClose, drain_analysis).             *)
(***************************************************************************)
THEOREM ClosedStaysClear == Spec => []ClosedShowsNothing
<1>1. Inv => ClosedShowsNothing
  BY DEF Inv
<1> QED
  BY Invariant, <1>1, PTL

(***************************************************************************)
(* No result of the present text is lost between the analysis thread and   *)
(* the editor (schedule_analysis, drain_analysis).                         *)
(***************************************************************************)
THEOREM ResultsKept == Spec => []NoResultLost
<1>1. Inv => NoResultLost
  BY DEF Inv
<1> QED
  BY Invariant, <1>1, PTL

(***************************************************************************)
(* Requests are answered from an elaboration not newer than the text, and  *)
(* from the one whose diagnostics are shown (handle_request).              *)
(***************************************************************************)
THEOREM AnswersCoherent == Spec => []AnswersBehindText
<1>1. Inv => AnswersBehindText
  BY DEF Inv
<1> QED
  BY Invariant, <1>1, PTL

(***************************************************************************)
(* Results of old texts are discarded for documents opened once            *)
(* (drain_analysis).                                                       *)
(***************************************************************************)
THEOREM StaleDiscardedOnce == Spec => StaleDiscardedFirst
<1>1. Inv /\ [Next]_vars => [\A u \in Uris : opens[u] <= 1 => PublishesCurrent(u)]_vars
  <2> SUFFICES ASSUME Inv, Next, NEW u \in Uris, opens[u] <= 1
               PROVE  PublishesCurrent(u)
    OBVIOUS
  <2>1. shown \in [Uris -> 0..MaxEdits]
    BY DEF Inv, TypeOK
  <2>2. CASE UNCHANGED shown
    BY <2>2 DEF PublishesCurrent
  <2>3. ASSUME NEW v \in Uris, DidClose(v) PROVE PublishesCurrent(u)
    BY <2>1, <2>3 DEF DidClose, PublishesCurrent
  <2>4. CASE DrainOne
    <3>1. \/ UNCHANGED shown
          \/ /\ ready # <<>> /\ ~Skip(Head(ready))
             /\ shown' = [shown EXCEPT ![Head(ready).uri] = Head(ready).ver]
      BY <2>4 DEF DrainOne
    <3> QED
      BY <2>1, <2>2, <3>1, DrainedIsCurrent DEF PublishesCurrent
  <2> QED
    BY <2>2, <2>3, <2>4 DEF Next, Edit, DidOpen, DidChange, HandleRequest, PollTimeout,
                            Disconnected, Analyzed, Drained
<1> QED
  BY Invariant, <1>1, PTL DEF Spec, StaleDiscardedFirst
=============================================================================
