-------------------------- MODULE AnalysisRunProofs --------------------------
(***************************************************************************)
(* What is proved of the pipeline for any number of runs and failures.     *)
(* Past its export a run computes from that export only: the invariant     *)
(* follows the export file by file, and what it has reached is of this     *)
(* run.  A complete run leaves a file behind only if every job that writes *)
(* it failed: the invariant says it of the jobs the run is past.           *)
(***************************************************************************)
EXTENDS AnalysisRun, SequenceTheorems, TLAPS

Reached ==
  /\ data \in [CSVs -> Int] /\ run \in Nat /\ job \in Nat \ {0}
  /\ step = "export" =>
       /\ job \in 1 .. 26
       /\ \A i \in 1 .. 26 : i < job => data[ExportOrder[i]] = run

IInv == Reached /\ NoMixedExport

-----------------------------------------------------------------------------
LEMMA ScriptNames == Scripts = {"tests", "charts", "tables", "notebooks"}
  BY DEF Scripts, Jobs

LEMMA FollowingIsScript ==
  /\ \A s \in Scripts : Following[s] \in Scripts \cup {"done"}
  /\ Following["export"] \in Scripts
  BY ScriptNames DEF Following

LEMMA ExportOrderReachesAll ==
  /\ \A i \in 1 .. 26 : ExportOrder[i] \in CSVs
  /\ \A f \in CSVs : \E i \in 1 .. 26 : f = ExportOrder[i]
  BY DEF CSVs

LEMMA InitReached == Init => IInv
  BY ScriptNames DEF Init, IInv, Reached, NoMixedExport, Absent

LEMMA BeginReached ==
  ASSUME IInv, NEW first \in Scripts \cup {"export"}, NEW single, Begin(first, single)
  PROVE  IInv'
  <1>1. /\ step' = first /\ job' = 1 /\ run' = run + 1 /\ UNCHANGED data
        /\ exported' => first = "export"
    BY DEF Begin
  <1>2. Reached'
    BY <1>1 DEF IInv, Reached
  <1>3. NoMixedExport'
    BY <1>1, ScriptNames DEF NoMixedExport
  <1> QED
    BY <1>2, <1>3 DEF IInv

\* A step within a script, or to the next one, leaves the data alone.
LEMMA ScriptStepReached ==
  ASSUME IInv, step \in Scripts, UNCHANGED <<data, run, exported>>,
         \/ NextJob(Len(Jobs[step]))
         \/ UNCHANGED <<step, job>>
  PROVE  IInv'
  <1>1. step' \in Scripts \cup {"done"} /\ job' \in Nat \ {0}
    BY FollowingIsScript DEF NextJob, NextScript, IInv, Reached
  <1> QED
    BY <1>1, ScriptNames DEF IInv, Reached, NoMixedExport

LEMMA StopReached ==
  ASSUME IInv, NEW how \in {"aborted", "killed"}, Stop(how), UNCHANGED <<data, run, exported>>
  PROVE  IInv'
  BY ScriptNames DEF Stop, IInv, Reached, NoMixedExport

LEMMA ExportReached ==
  ASSUME IInv, ExportOne
  PROVE  IInv'
  <1>1. /\ data \in [CSVs -> Int] /\ run \in Nat /\ job \in 1 .. 26 /\ step = "export"
        /\ \A i \in 1 .. 26 : i < job => data[ExportOrder[i]] = run
        /\ data' = [data EXCEPT ![ExportOrder[job]] = run]
        /\ NextJob(26) /\ UNCHANGED <<run, exported>>
    BY DEF IInv, Reached, ExportOne, WriteCsv
  <1>2. /\ data' \in [CSVs -> Int]
        /\ \A i \in 1 .. 26 : i <= job => data'[ExportOrder[i]] = run
    BY <1>1, ExportOrderReachesAll
  <1>3. CASE job < 26
    <2>1. step' = "export" /\ job' = job + 1
      BY <1>1, <1>3 DEF NextJob
    <2>2. Reached'
      BY <1>1, <1>2, <1>3, <2>1 DEF Reached
    <2>3. NoMixedExport'
      BY <2>1, ScriptNames DEF NoMixedExport
    <2> QED
      BY <2>2, <2>3 DEF IInv
  <1>4. CASE job = 26
    <2>1. step' \in Scripts \cup {"done"} /\ job' = 1
      BY <1>1, <1>4, FollowingIsScript DEF NextJob, NextScript
    <2>2. \A f \in CSVs : data'[f] = run
      BY <1>2, <1>4, ExportOrderReachesAll
    <2> QED
      BY <1>1, <1>2, <2>1, <2>2, ScriptNames DEF IInv, Reached, NoMixedExport
  <1> QED
    BY <1>1, <1>3, <1>4

\* Past its export a run computes from one export only.
THEOREM OneExport == Spec => []NoMixedExport
  <1>1. IInv /\ [Next]_vars => IInv'
    <2> SUFFICES ASSUME IInv, [Next]_vars PROVE IInv'
      OBVIOUS
    <2>1. CASE BeginPipeline \/ BeginSkipExport \/ BeginScript
      BY <2>1, BeginReached, ScriptNames DEF BeginPipeline, BeginSkipExport, BeginScript
    <2>2. CASE ExportOne
      BY <2>2, ExportReached
    <2>3. CASE WriteFile
      BY <2>3, ScriptStepReached DEF WriteFile
    <2>4. CASE WriteNothing
      BY <2>4, ScriptStepReached DEF WriteNothing
    <2>5. CASE NotebookLacksData
      BY <2>5, ScriptStepReached, ScriptNames DEF NotebookLacksData, JobFails
    <2>6. CASE FigureFails
      BY <2>6, ScriptStepReached, ScriptNames DEF FigureFails, JobFails
    <2>7. CASE NotebookFails
      BY <2>7, ScriptStepReached, ScriptNames DEF NotebookFails, JobFails
    <2>8. CASE QueryFails \/ TableFails \/ Kill
      BY <2>8, StopReached DEF QueryFails, TableFails, Kill
    <2>9. CASE UNCHANGED vars
      BY <2>9 DEF vars, position, IInv, Reached, NoMixedExport
    <2> QED
      BY <2>1, <2>2, <2>3, <2>4, <2>5, <2>6, <2>7, <2>8, <2>9 DEF Next, Work
  <1> QED
    BY InitReached, <1>1, PTL DEF Spec, IInv

-----------------------------------------------------------------------------
(* Which jobs there are.  All that the proofs below need to know of a job  *)
(* is that it writes one to seven files, and that one which writes a list  *)
(* of tests writes nothing else.                                           *)

OneSubject(saves) ==
  /\ Len(saves) \in 1 .. 7 /\ DOMAIN saves = 1 .. Len(saves)
  /\ saves[1].art.tests => \A k \in DOMAIN saves : saves[k].art = saves[1].art

PlainArts == { fig01, fig02, fig03, fig04, fig05, fig06, fig07,
               table01, table03, table04, table05,
               report01, report02, report03, report04, report05, report06 }
PlainFiles == { File(art, ext) : art \in PlainArts, ext \in {"png", "pdf", "md", "tex", "html"} }

LEMMA PlainArtsAreNoTests == \A art \in PlainArts : art.tests = FALSE
  BY DEF PlainArts, fig01, fig02, fig03, fig04, fig05, fig06, fig07,
         table01, table03, table04, table05,
         report01, report02, report03, report04, report05, report06, Drawing

LEMMA PlainListsHaveOneSubject ==
  ASSUME NEW saves \in Seq(PlainFiles), Len(saves) \in 1 .. 7
  PROVE  OneSubject(saves)
  <1>1. Len(saves) \in Nat /\ saves \in [1 .. Len(saves) -> PlainFiles]
        /\ DOMAIN saves = 1 .. Len(saves)
    BY LenProperties
  <1>2. saves[1] \in PlainFiles
    BY <1>1
  <1>3. saves[1].art \in PlainArts
    BY <1>2 DEF PlainFiles, File
  <1> QED
    BY <1>1, <1>3, PlainArtsAreNoTests DEF OneSubject

LEMMA SavedFormsHaveOneSubject ==
  ASSUME NEW art
  PROVE  OneSubject(SaveFigure(art)) /\ OneSubject(SaveTable(art))
  <1>1. ASSUME NEW a, NEW b, a.art = art, b.art = art
        PROVE  OneSubject(<<a>>) /\ OneSubject(<<a, b>>)
    <2>1. \A k \in 1 .. 2 : k = 1 \/ k = 2
      OBVIOUS
    <2>2. Len(<<a, b>>) = 2 /\ DOMAIN <<a, b>> = 1 .. 2
      OBVIOUS
    <2>3. OneSubject(<<a, b>>)
      BY <1>1, <2>1, <2>2 DEF OneSubject
    <2> QED
      BY <1>1, <2>3 DEF OneSubject
  <1>2. /\ File(art, "png").art = art /\ File(art, "pdf").art = art
        /\ File(art, "md").art = art /\ File(art, "tex").art = art
    BY DEF File
  <1>3. \/ SaveTable(art) = << File(art, "md") >>
        \/ SaveTable(art) = << File(art, "md"), File(art, "tex") >>
    BY DEF SaveTable
  <1>4. OneSubject(SaveFigure(art))
    BY <1>1, <1>2 DEF SaveFigure
  <1>5. OneSubject(SaveTable(art))
    BY <1>1, <1>2, <1>3
  <1> QED
    BY <1>4, <1>5

LEMMA JobLists ==
  ASSUME NEW s \in Scripts
  PROVE  Len(Jobs[s]) \in 1 .. 8 /\ DOMAIN Jobs[s] = 1 .. Len(Jobs[s])
  <1>1. ASSUME NEW n \in Nat \ {0}, NEW f, f = [i \in 1 .. n |-> f[i]]
        PROVE  Len(f) = n /\ DOMAIN f = 1 .. n
    <2>1. f \in [1 .. n -> {f[i] : i \in 1 .. n}]
      BY <1>1
    <2>2. f \in Seq({f[i] : i \in 1 .. n})
      BY <2>1, SeqDef
    <2> QED
      BY <2>1, <2>2, LenProperties
  <1>2. CASE s = "charts"
    BY <1>1, <1>2 DEF Jobs, ChartJobs
  <1>3. CASE s = "tables"
    BY <1>1, <1>3 DEF Jobs, TableJobs
  <1>4. CASE s = "tests"
    BY <1>4 DEF Jobs, TestJobs
  <1>5. CASE s = "notebooks"
    BY <1>5 DEF Jobs, NotebookJobs
  <1> QED
    BY <1>2, <1>3, <1>4, <1>5, ScriptNames

LEMMA NotebooksHaveOneSubject ==
  \A j \in DOMAIN NotebookJobs : OneSubject(NotebookJobs[j].saves)
  <1>1. \A art \in PlainArts :
          /\ SaveFigure(art) \in Seq(PlainFiles) /\ Len(SaveFigure(art)) = 2
          /\ SaveTable(art) \in Seq(PlainFiles) /\ Len(SaveTable(art)) \in 1 .. 2
          /\ << File(art, "html") >> \in Seq(PlainFiles) /\ Len(<< File(art, "html") >>) = 1
    <2> SUFFICES ASSUME NEW art \in PlainArts
                 PROVE  /\ SaveFigure(art) \in Seq(PlainFiles) /\ Len(SaveFigure(art)) = 2
                        /\ SaveTable(art) \in Seq(PlainFiles) /\ Len(SaveTable(art)) \in 1 .. 2
                        /\ << File(art, "html") >> \in Seq(PlainFiles)
                        /\ Len(<< File(art, "html") >>) = 1
      OBVIOUS
    <2>1. \A ext \in {"png", "pdf", "md", "tex", "html"} : File(art, ext) \in PlainFiles
      BY DEF PlainFiles
    <2>2. \/ SaveTable(art) = << File(art, "md") >>
          \/ SaveTable(art) = << File(art, "md"), File(art, "tex") >>
      BY DEF SaveTable
    <2>3. ASSUME NEW a \in PlainFiles, NEW b \in PlainFiles
          PROVE  /\ <<a>> \in Seq(PlainFiles) /\ <<a, b>> \in Seq(PlainFiles)
                 /\ Len(<<a>>) = 1 /\ Len(<<a, b>>) = 2
      OBVIOUS
    <2>4. SaveFigure(art) \in Seq(PlainFiles) /\ Len(SaveFigure(art)) = 2
      BY <2>1, <2>3 DEF SaveFigure
    <2>5. SaveTable(art) \in Seq(PlainFiles) /\ Len(SaveTable(art)) \in 1 .. 2
      <3>1. /\ << File(art, "md") >> \in Seq(PlainFiles)
            /\ << File(art, "md"), File(art, "tex") >> \in Seq(PlainFiles)
            /\ Len(<< File(art, "md") >>) \in 1 .. 2
            /\ Len(<< File(art, "md"), File(art, "tex") >>) \in 1 .. 2
        BY <2>1, <2>3
      <3> QED
        BY <2>2, <3>1
    <2>6. << File(art, "html") >> \in Seq(PlainFiles) /\ Len(<< File(art, "html") >>) = 1
      BY <2>1, <2>3
    <2> QED
      BY <2>4, <2>5, <2>6
  <1>2. ASSUME NEW saves \in Seq(PlainFiles), NEW art \in PlainArts, Len(saves) <= 6
        PROVE  OneSubject(saves \o << File(art, "html") >>)
    <2>1. /\ saves \o << File(art, "html") >> \in Seq(PlainFiles)
          /\ Len(saves \o << File(art, "html") >>) = Len(saves) + 1
      BY <1>1, ConcatProperties
    <2>2. Len(saves) + 1 \in 1 .. 7
      BY <1>2, LenProperties
    <2> QED
      BY <2>1, <2>2, PlainListsHaveOneSubject
  <1>3. \A p, q \in Seq(PlainFiles) :
          p \o q \in Seq(PlainFiles) /\ Len(p \o q) = Len(p) + Len(q)
    BY ConcatProperties
  <1>4. OneSubject(Notebook01.saves)
    <2>1. /\ Notebook01.saves = << File(report01, "html") >>
          /\ << File(report01, "html") >> \in Seq(PlainFiles)
          /\ Len(<< File(report01, "html") >>) \in 1 .. 7
      BY <1>1 DEF Notebook01, Job, PlainArts
    <2> QED
      BY <2>1, PlainListsHaveOneSubject
  <1>5. OneSubject(Notebook02.saves)
    <2> DEFINE figs == SaveFigure(fig01) \o SaveFigure(fig02) \o SaveFigure(fig06)
    <2>1. /\ fig01 \in PlainArts /\ fig02 \in PlainArts
          /\ fig06 \in PlainArts /\ report02 \in PlainArts
      BY DEF PlainArts
    <2>2. figs \in Seq(PlainFiles) /\ Len(figs) <= 6
      <3> DEFINE p == SaveFigure(fig01)
                 q == SaveFigure(fig02)
                 r == SaveFigure(fig06)
      <3>1. /\ p \in Seq(PlainFiles) /\ Len(p) = 2
            /\ q \in Seq(PlainFiles) /\ Len(q) = 2
            /\ r \in Seq(PlainFiles) /\ Len(r) = 2
        BY <1>1, <2>1
      <3> HIDE DEF p, q, r
      <3>2. p \o q \in Seq(PlainFiles) /\ Len(p \o q) = Len(p) + Len(q)
        BY <1>3, <3>1
      <3>3. (p \o q) \o r \in Seq(PlainFiles) /\ Len((p \o q) \o r) = Len(p \o q) + Len(r)
        BY <1>3, <3>1, <3>2
      <3>4. Len((p \o q) \o r) = 6
        BY <3>1, <3>2, <3>3
      <3> QED
        BY <3>3, <3>4 DEF p, q, r
    <2>3. Notebook02.saves = figs \o << File(report02, "html") >>
      BY DEF Notebook02, Job
    <2> QED
      BY <1>2, <2>1, <2>2, <2>3
  <1>6. ASSUME NEW fig \in PlainArts, NEW report \in PlainArts
        PROVE  OneSubject(SaveFigure(fig) \o << File(report, "html") >>)
    <2>1. SaveFigure(fig) \in Seq(PlainFiles) /\ Len(SaveFigure(fig)) = 2
      BY <1>1
    <2>2. Len(SaveFigure(fig)) <= 6
      BY <2>1
    <2> QED
      BY <1>2, <2>1, <2>2
  <1>7. OneSubject(Notebook03.saves) /\ OneSubject(Notebook04.saves) /\ OneSubject(Notebook05.saves)
    <2>1. /\ fig03 \in PlainArts /\ fig04 \in PlainArts /\ fig05 \in PlainArts
          /\ report03 \in PlainArts /\ report04 \in PlainArts /\ report05 \in PlainArts
      BY DEF PlainArts
    <2> QED
      BY <1>6, <2>1 DEF Notebook03, Notebook04, Notebook05, Job
  <1>8. OneSubject(Notebook06.saves)
    <2> DEFINE files == SaveFigure(fig07) \o SaveTable(table04)
    <2>1. fig07 \in PlainArts /\ table04 \in PlainArts /\ report06 \in PlainArts
      BY DEF PlainArts
    <2>2. files \in Seq(PlainFiles) /\ Len(files) <= 6
      <3> DEFINE p == SaveFigure(fig07)
                 q == SaveTable(table04)
      <3>1. /\ p \in Seq(PlainFiles) /\ Len(p) = 2
            /\ q \in Seq(PlainFiles) /\ Len(q) \in 1 .. 2
        BY <1>1, <2>1
      <3> HIDE DEF p, q
      <3>2. p \o q \in Seq(PlainFiles) /\ Len(p \o q) = Len(p) + Len(q)
        BY <1>3, <3>1
      <3>3. Len(p \o q) <= 6
        BY <3>1, <3>2
      <3> QED
        BY <3>2, <3>3 DEF p, q
    <2>3. Notebook06.saves = files \o << File(report06, "html") >>
      BY DEF Notebook06, Job
    <2> QED
      BY <1>2, <2>1, <2>2, <2>3
  <1> QED
    BY <1>4, <1>5, <1>7, <1>8 DEF NotebookJobs

LEMMA JobsHaveOneSubject ==
  \A s \in Scripts : \A j \in DOMAIN Jobs[s] : OneSubject(Jobs[s][j].saves)
  <1>1. \A j \in DOMAIN TestJobs : OneSubject(TestJobs[j].saves)
    BY SavedFormsHaveOneSubject DEF TestJobs, Job
  <1>2. \A j \in DOMAIN ChartJobs : OneSubject(ChartJobs[j].saves)
    BY SavedFormsHaveOneSubject DEF ChartJobs, Job
  <1>3. \A j \in DOMAIN TableJobs : OneSubject(TableJobs[j].saves)
    BY SavedFormsHaveOneSubject DEF TableJobs, Job
  <1> QED
    BY <1>1, <1>2, <1>3, NotebooksHaveOneSubject DEF Jobs, Scripts

-----------------------------------------------------------------------------
(* What a run of the whole pipeline has brought up to date.                *)

UpToDate(file) == out[file] = {Content(file.art)} \/ NoResults(file.art)

Rank == [ tests |-> 1, charts |-> 2, tables |-> 3, notebooks |-> 4, done |-> 5 ]

\* The run is past job j of script s.
Past(s, j) == Rank[s] < Rank[step] \/ (s = step /\ j < job)

Done(s, j) ==
  \/ <<s, j>> \in failed
  \/ \A k \in DOMAIN Jobs[s][j].saves : UpToDate(Jobs[s][j].saves[k])

Place ==
  /\ DOMAIN out = Files
  /\ step \in Scripts => job \in DOMAIN Jobs[step] /\ save \in DOMAIN Current.saves

\* Every job behind has failed or all of its files are up to date, and so
\* are the files that the current job has written.
Behind ==
  /\ step \in Scripts \cup {"done"} =>
       \A s \in Scripts : \A j \in DOMAIN Jobs[s] : Past(s, j) => Done(s, j)
  /\ step \in Scripts =>
       \A k \in DOMAIN Current.saves : k < save => UpToDate(Current.saves[k])

Fulfilled == Place /\ (~alone => Behind)

LEMMA SavedAreFiles ==
  \A s \in Scripts : \A j \in DOMAIN Jobs[s] : \A k \in DOMAIN Jobs[s][j].saves :
    Jobs[s][j].saves[k] \in Files
  BY DEF Files

LEMMA Ranks ==
  /\ Rank["tests"] = 1 /\ Rank["charts"] = 2 /\ Rank["tables"] = 3
  /\ Rank["notebooks"] = 4 /\ Rank["done"] = 5
  BY DEF Rank

LEMMA NotScripts == \A s \in Ended \cup {"export"} : s \notin Scripts
  BY ScriptNames DEF Ended

LEMMA FirstPlaces ==
  \A s \in Scripts : 1 \in DOMAIN Jobs[s] /\ 1 \in DOMAIN Jobs[s][1].saves
  BY JobLists, JobsHaveOneSubject DEF OneSubject

LEMMA InitFulfilled == Init => Fulfilled
  BY NotScripts DEF Init, Fulfilled, Place, Behind, Ended

LEMMA BeginFulfilled ==
  ASSUME Fulfilled, NEW first \in {"export", "tests", "charts", "tables"}, NEW single \in BOOLEAN,
         Begin(first, single), single \/ first \in {"export", "tests"}
  PROVE  Fulfilled'
  <1>1. step' = first /\ job' = 1 /\ save' = 1 /\ alone' = single /\ out' = out
    BY DEF Begin
  <1>2. Place'
    BY <1>1, FirstPlaces, NotScripts DEF Fulfilled, Place, Current
  <1>3. ASSUME first = "tests" PROVE Behind'
    <2>1. \A s \in Scripts : \A j \in DOMAIN Jobs[s] : ~Past(s, j)'
      BY <1>1, <1>3, Ranks, ScriptNames, JobLists DEF Past
    <2>2. \A k \in DOMAIN Jobs["tests"][1].saves : ~(k < 1)
      BY JobsHaveOneSubject, FirstPlaces, ScriptNames DEF OneSubject
    <2> QED
      BY <1>1, <1>3, <2>1, <2>2 DEF Behind, Current
  <1>4. first = "export" => Behind'
    BY <1>1, NotScripts, ScriptNames DEF Behind
  <1> QED
    BY <1>1, <1>2, <1>3, <1>4 DEF Fulfilled

LEMMA ExportFulfilled ==
  ASSUME Fulfilled, step = "export", NextJob(26), UNCHANGED <<out, alone>>
  PROVE  Fulfilled'
  <1>1. \/ step' = "export"
        \/ step' \in {"tests", "done"} /\ job' = 1 /\ save' = 1 /\ (~alone => step' = "tests")
    BY DEF NextJob, NextScript, Following
  <1>2. Place'
    BY <1>1, FirstPlaces, NotScripts DEF Fulfilled, Place, Current, Ended
  <1>3. ASSUME step' = "tests", job' = 1, save' = 1 PROVE Behind'
    <2>1. \A s \in Scripts : \A j \in DOMAIN Jobs[s] : ~Past(s, j)'
      BY <1>3, Ranks, ScriptNames, JobLists DEF Past
    <2>2. \A k \in DOMAIN Jobs["tests"][1].saves : ~(k < 1)
      BY JobsHaveOneSubject, FirstPlaces, ScriptNames DEF OneSubject
    <2> QED
      BY <1>3, <2>1, <2>2 DEF Behind, Current
  <1>4. step' = "export" => Behind'
    BY NotScripts, ScriptNames DEF Behind
  <1> QED
    BY <1>1, <1>2, <1>3, <1>4 DEF Fulfilled

LEMMA StopFulfilled ==
  ASSUME Fulfilled, NEW how \in {"aborted", "killed"}, Stop(how), UNCHANGED <<out, alone>>
  PROVE  Fulfilled'
  BY ScriptNames DEF Stop, Fulfilled, Place, Behind

\* The job ends: it has failed, or all of its files are up to date.
LEMMA JobEnds ==
  ASSUME Fulfilled, step \in Scripts, NextJob(Len(Jobs[step])), UNCHANGED alone,
         failed \subseteq failed', DOMAIN out' = Files,
         \A file \in Files : UpToDate(file) => UpToDate(file)',
         \A s \in Scripts : \A j \in DOMAIN Jobs[s] :
           ~alone /\ s = step /\ j = job => Done(s, j)'
  PROVE  Fulfilled'
  <1>1. job \in 1 .. Len(Jobs[step]) /\ Len(Jobs[step]) \in Nat
        /\ DOMAIN Jobs[step] = 1 .. Len(Jobs[step])
    BY JobLists DEF Fulfilled, Place
  <1>3. \A s \in Scripts : \A j \in DOMAIN Jobs[s] : Done(s, j) => Done(s, j)'
    BY SavedAreFiles DEF Done
  <1>4. \/ /\ job < Len(Jobs[step]) /\ step' = step /\ job' = job + 1
        \/ job = Len(Jobs[step]) /\ job' = 1 /\ step' = IF alone THEN "done" ELSE Following[step]
    BY <1>1 DEF NextJob, NextScript
  <1>5. save' = 1
    BY DEF NextJob, NextScript
  <1>6. step' \in Scripts \cup {"done"} /\ "done" \notin Scripts
    BY <1>4, FollowingIsScript, ScriptNames
  <1>7. step' \in Scripts => job' \in DOMAIN Jobs[step'] /\ 1 \in DOMAIN Jobs[step'][job'].saves
    <2>1. CASE step' = step /\ job' = job + 1 /\ job < Len(Jobs[step])
      <3>1. job' \in DOMAIN Jobs[step]
        BY <1>1, <2>1
      <3> QED
        BY <2>1, <3>1, JobsHaveOneSubject DEF OneSubject
    <2>2. CASE job' = 1
      BY <2>2, FirstPlaces
    <2> QED
      BY <1>4, <2>1, <2>2
  <1>8. Place'
    BY <1>5, <1>6, <1>7 DEF Place, Current
  <1>9. ASSUME ~alone, NEW s \in Scripts, NEW j \in DOMAIN Jobs[s], Past(s, j)'
        PROVE  Past(s, j) \/ (s = step /\ j = job)
    <2>1. j \in 1 .. Len(Jobs[s]) /\ Len(Jobs[s]) \in Nat
      BY JobLists
    <2>2. CASE step' = step /\ job' = job + 1
      BY <1>1, <1>9, <2>1, <2>2 DEF Past
    <2>3. CASE job = Len(Jobs[step]) /\ job' = 1 /\ step' = Following[step]
      <3>1. Rank[s] <= Rank[step]
        BY <1>9, <2>1, <2>3, Ranks, ScriptNames DEF Past, Following
      <3>2. Rank[s] = Rank[step] => s = step
        BY Ranks, ScriptNames
      <3> QED
        BY <1>1, <2>1, <2>3, <3>1, <3>2, Ranks, ScriptNames DEF Past
    <2> QED
      BY <1>4, <1>9, <2>2, <2>3
  <1>10. ASSUME ~alone PROVE Behind'
    <2>1. \A s \in Scripts : \A j \in DOMAIN Jobs[s] : Past(s, j)' => Done(s, j)'
      BY <1>3, <1>9, <1>10 DEF Fulfilled, Behind
    <2>2. step' \in Scripts => \A k \in DOMAIN Jobs[step'][job'].saves : ~(k < 1)
      BY <1>7, JobsHaveOneSubject DEF OneSubject
    <2> QED
      BY <1>5, <2>1, <2>2 DEF Behind, Current
  <1> QED
    BY <1>8, <1>10 DEF Fulfilled

LEMMA JobFailsFulfilled ==
  ASSUME Fulfilled, step \in Scripts, JobFails
  PROVE  Fulfilled'
  <1>1. /\ NextJob(Len(Jobs[step])) /\ failed' = failed \cup {<<step, job>>}
        /\ UNCHANGED <<data, out, alone>>
    BY DEF JobFails
  <1>2. \A file : UpToDate(file)' = UpToDate(file)
    BY <1>1 DEF UpToDate, Content, Inputs, NoResults, Present
  <1>3. DOMAIN out' = Files
    BY <1>1 DEF Fulfilled, Place
  <1>4. \A s \in Scripts : \A j \in DOMAIN Jobs[s] : s = step /\ j = job => Done(s, j)'
    BY <1>1 DEF Done
  <1> QED
    BY <1>1, <1>2, <1>3, <1>4, JobEnds

LEMMA WriteNothingFulfilled ==
  ASSUME Fulfilled, WriteNothing
  PROVE  Fulfilled'
  <1>1. /\ step \in Scripts /\ NoResults(Art) /\ NextJob(Len(Jobs[step]))
        /\ UNCHANGED <<data, out, alone, failed>>
    BY DEF WriteNothing
  <1>2. \A file : UpToDate(file)' = UpToDate(file)
    BY <1>1 DEF UpToDate, Content, Inputs, NoResults, Present
  <1>3. DOMAIN out' = Files
    BY <1>1 DEF Fulfilled, Place
  <1>4. \A k \in DOMAIN Current.saves : Current.saves[k].art = Art
    BY <1>1, JobsHaveOneSubject DEF Fulfilled, Place, Current, Art, OneSubject, NoResults
  <1>5. \A k \in DOMAIN Current.saves : UpToDate(Current.saves[k])
    BY <1>1, <1>4 DEF UpToDate
  <1>6. \A s \in Scripts : \A j \in DOMAIN Jobs[s] : s = step /\ j = job => Done(s, j)'
    BY <1>1, <1>2, <1>5 DEF Done, Current
  <1> QED
    BY <1>1, <1>2, <1>3, <1>6, JobEnds

LEMMA WriteFileFulfilled ==
  ASSUME Fulfilled, WriteFile
  PROVE  Fulfilled'
  <1> DEFINE now == Current.saves[save]
  <1>1. /\ step \in Scripts
        /\ out' = [out EXCEPT ![now] = {Content(now.art)}]
        /\ UNCHANGED <<data, alone, failed>>
    BY DEF WriteFile
  <1>2. job \in DOMAIN Jobs[step] /\ save \in DOMAIN Current.saves /\ DOMAIN out = Files
    BY <1>1 DEF Fulfilled, Place
  <1>3. now \in Files
    BY <1>1, <1>2, SavedAreFiles DEF Current
  <1>4. DOMAIN out' = Files
    BY <1>1, <1>2
  <1>5. \A art : Content(art)' = Content(art) /\ NoResults(art)' = NoResults(art)
    BY <1>1 DEF Content, Inputs, NoResults, Present
  <1>6. \A file \in Files : file = now \/ UpToDate(file) => UpToDate(file)'
    BY <1>1, <1>2, <1>5 DEF UpToDate
  <1>7. Len(Current.saves) \in Nat /\ DOMAIN Current.saves = 1 .. Len(Current.saves)
    BY <1>1, <1>2, JobsHaveOneSubject DEF Current, OneSubject
  <1>8. \A k \in DOMAIN Current.saves : Current.saves[k] \in Files
    BY <1>1, <1>2, SavedAreFiles DEF Current
  <1>9. ASSUME ~alone, NEW k \in DOMAIN Current.saves, k <= save
        PROVE  \A file \in Files : file = Current.saves[k] => UpToDate(file)'
    <2>1. k = save \/ k < save
      BY <1>2, <1>7, <1>9
    <2> QED
      BY <1>1, <1>6, <1>9, <2>1 DEF Fulfilled, Behind
  <1>10. CASE save < Len(Current.saves)
    <2>1. save' = save + 1 /\ step' = step /\ job' = job
      BY <1>10 DEF WriteFile
    <2>2. Place'
      BY <1>2, <1>4, <1>7, <1>10, <2>1 DEF Place, Current
    <2>3. \A s \in Scripts : \A j \in DOMAIN Jobs[s] : Done(s, j) => Done(s, j)'
      BY <1>1, <1>6, SavedAreFiles DEF Done
    <2>4. ~alone => Behind'
      <3> SUFFICES ASSUME ~alone PROVE Behind'
        OBVIOUS
      <3>1. \A s \in Scripts : \A j \in DOMAIN Jobs[s] : Past(s, j)' => Done(s, j)'
        BY <1>1, <2>1, <2>3 DEF Fulfilled, Behind, Past
      <3>2. \A k \in DOMAIN Current.saves : k < save + 1 => k <= save
        BY <1>2, <1>7
      <3> QED
        BY <1>1, <1>8, <1>9, <2>1, <3>1, <3>2 DEF Behind, Current
    <2> QED
      BY <1>1, <2>2, <2>4 DEF Fulfilled
  <1>11. CASE ~(save < Len(Current.saves))
    <2>1. NextJob(Len(Jobs[step]))
      BY <1>11 DEF WriteFile
    <2>2. \A k \in DOMAIN Current.saves : k <= save
      BY <1>2, <1>7, <1>11
    <2>3. ASSUME ~alone, NEW s \in Scripts, NEW j \in DOMAIN Jobs[s], s = step, j = job
          PROVE  Done(s, j)'
      BY <1>8, <1>9, <2>2, <2>3 DEF Done, Current
    <2> QED
      BY <1>1, <1>4, <1>6, <2>1, <2>3, JobEnds
  <1> QED
    BY <1>10, <1>11

LEMMA AlwaysFulfilled == Spec => []Fulfilled
  <1>1. Fulfilled /\ [Next]_vars => Fulfilled'
    <2> SUFFICES ASSUME Fulfilled, [Next]_vars PROVE Fulfilled'
      OBVIOUS
    <2>1. CASE BeginPipeline \/ BeginSkipExport \/ BeginScript
      BY <2>1, BeginFulfilled DEF BeginPipeline, BeginSkipExport, BeginScript
    <2>2. CASE ExportOne
      BY <2>2, ExportFulfilled DEF ExportOne
    <2>3. CASE WriteFile
      BY <2>3, WriteFileFulfilled
    <2>4. CASE WriteNothing
      BY <2>4, WriteNothingFulfilled
    <2>5. CASE NotebookLacksData \/ FigureFails \/ NotebookFails
      BY <2>5, JobFailsFulfilled, ScriptNames DEF NotebookLacksData, FigureFails, NotebookFails
    <2>6. CASE QueryFails \/ TableFails \/ Kill
      BY <2>6, StopFulfilled DEF QueryFails, TableFails, Kill
    <2>7. CASE UNCHANGED vars
      <3>1. UNCHANGED <<data, out, step, job, save, alone, failed>>
        BY <2>7 DEF vars
      <3>2. \A file : UpToDate(file)' = UpToDate(file)
        BY <3>1 DEF UpToDate, Content, Inputs, NoResults, Present
      <3> QED
        BY <3>1, <3>2 DEF Fulfilled, Place, Behind, Past, Done, Current
    <2> QED
      BY <2>1, <2>2, <2>3, <2>4, <2>5, <2>6, <2>7 DEF Next, Work
  <1> QED
    BY InitFulfilled, <1>1, PTL DEF Spec

\* A file stays stale in a complete run only if every job that writes it failed.
THEOREM StaleWhenFailed == Spec => []StaleOnlyIfFailed
  <1>1. Fulfilled => StaleOnlyIfFailed
    <2> SUFFICES ASSUME Fulfilled, step = "done", ~alone, NEW file \in Files, ~UpToDate(file),
                        NEW w \in WritersOf(file)
                 PROVE  w \in failed
      BY DEF StaleOnlyIfFailed, UpToDate
    <2>1. /\ w = <<w[1], w[2]>> /\ w[1] \in Scripts /\ w[2] \in DOMAIN Jobs[w[1]]
          /\ \E k \in DOMAIN Jobs[w[1]][w[2]].saves : Jobs[w[1]][w[2]].saves[k] = file
      BY DEF WritersOf
    <2>2. Past(w[1], w[2])
      BY <2>1, Ranks, ScriptNames DEF Past
    <2>3. Done(w[1], w[2])
      BY <2>1, <2>2 DEF Fulfilled, Behind
    <2> QED
      BY <2>1, <2>3 DEF Done
  <1> QED
    BY AlwaysFulfilled, <1>1, PTL

-----------------------------------------------------------------------------
(* Types.  The position stays in the bounds because no script has more     *)
(* than eight jobs and no job writes more than seven files.                *)

LEMMA NextJobTyped ==
  ASSUME TypeOK, NEW jobs \in 1 .. 26, step \in Scripts \cup {"export"}, NextJob(jobs)
  PROVE  step' \in Ended \cup Scripts \cup {"export"} /\ job' \in 1 .. 26 /\ save' \in 1 .. 7
  <1>1. job \in 1 .. 26
    BY DEF TypeOK
  <1>2. Following[step] \in Ended \cup Scripts
    BY FollowingIsScript DEF Ended
  <1> QED
    BY <1>1, <1>2 DEF NextJob, NextScript, Ended

LEMMA JobFailsTyped ==
  ASSUME TypeOK, Fulfilled, step \in Scripts, JobFails, faults' \in 0 .. MaxFaults
  PROVE  TypeOK'
  <1>1. Len(Jobs[step]) \in 1 .. 26 /\ job \in 1 .. 8
    BY JobLists DEF Fulfilled, Place
  <1>2. NextJob(Len(Jobs[step])) /\ failed' = failed \cup {<<step, job>>}
        /\ UNCHANGED <<data, out, run, exported, alone>>
    BY DEF JobFails
  <1>3. step' \in Ended \cup Scripts \cup {"export"} /\ job' \in 1 .. 26 /\ save' \in 1 .. 7
    BY <1>1, <1>2, NextJobTyped
  <1>4. failed' \subseteq Scripts \X (1 .. 8)
    BY <1>1, <1>2 DEF TypeOK
  <1> QED
    BY <1>2, <1>3, <1>4 DEF TypeOK

LEMMA WriteFileTyped ==
  ASSUME TypeOK, Fulfilled, WriteFile
  PROVE  TypeOK'
  <1>1. /\ step \in Scripts /\ UNCHANGED <<data, run, exported, alone, failed, faults>>
        /\ DOMAIN out' = DOMAIN out
    BY DEF WriteFile
  <1>2. Len(Jobs[step]) \in 1 .. 26 /\ job \in DOMAIN Jobs[step]
    BY <1>1, JobLists DEF Fulfilled, Place
  <1>3. Len(Current.saves) \in 1 .. 7
    BY <1>1, <1>2, JobsHaveOneSubject DEF Current, OneSubject
  <1>4. \/ save < Len(Current.saves) /\ save' = save + 1 /\ UNCHANGED <<step, job>>
        \/ NextJob(Len(Jobs[step]))
    BY DEF WriteFile
  <1>5. ASSUME NEW n \in 1 .. 7, save < n, save \in 1 .. 7 PROVE save + 1 \in 1 .. 7
    BY <1>5
  <1> QED
    <2>1. save \in 1 .. 7 /\ job \in 1 .. 26 /\ step \in Ended \cup Scripts \cup {"export"}
      BY DEF TypeOK
    <2>2. step' \in Ended \cup Scripts \cup {"export"} /\ job' \in 1 .. 26 /\ save' \in 1 .. 7
      <3>1. CASE save < Len(Current.saves) /\ save' = save + 1 /\ UNCHANGED <<step, job>>
        BY <1>3, <1>5, <2>1, <3>1
      <3>2. CASE NextJob(Len(Jobs[step]))
        BY <1>1, <1>2, <3>2, NextJobTyped
      <3> QED
        BY <1>4, <3>1, <3>2
    <2> QED
      BY <1>1, <2>2 DEF TypeOK

LEMMA BeginTyped ==
  ASSUME TypeOK, NEW first \in Scripts \cup {"export"}, NEW single \in BOOLEAN,
         Begin(first, single)
  PROVE  TypeOK'
  BY BoundsAreNatural DEF Begin, TypeOK

\* The type invariant.
THEOREM TypeCorrect == Spec => []TypeOK
  <1>1. Init => TypeOK
    <2> SUFFICES ASSUME Init PROVE TypeOK
      OBVIOUS
    <2>1. data \in [CSVs -> Absent .. MaxRuns]
      <3>1. 0 \in Absent .. MaxRuns /\ Absent \in Absent .. MaxRuns
        BY BoundsAreNatural DEF Absent
      <3> QED
        BY <3>1 DEF Init
    <2>2. DOMAIN out = Files
      BY DEF Init
    <2>3. /\ step = "idle" /\ job = 1 /\ save = 1 /\ run = 0 /\ faults = 0
          /\ exported \in BOOLEAN /\ alone \in BOOLEAN /\ failed = {}
      BY DEF Init
    <2>4. 0 \in 0 .. MaxRuns /\ 0 \in 0 .. MaxFaults
      BY BoundsAreNatural
    <2> QED
      BY <2>1, <2>2, <2>3, <2>4 DEF TypeOK, Ended
  <1>2. TypeOK /\ Fulfilled /\ [Next]_vars => TypeOK'
    <2> SUFFICES ASSUME TypeOK, Fulfilled, [Next]_vars PROVE TypeOK'
      OBVIOUS
    <2>1. CASE BeginPipeline \/ BeginSkipExport \/ BeginScript
      BY <2>1, BeginTyped, ScriptNames DEF BeginPipeline, BeginSkipExport, BeginScript
    <2>2. CASE ExportOne
      <3>1. /\ step = "export" /\ NextJob(26)
            /\ data' = [data EXCEPT ![ExportOrder[job]] = run]
            /\ UNCHANGED <<out, run, exported, alone, failed, faults>>
        BY <2>2 DEF ExportOne, WriteCsv
      <3>2. run \in Absent .. MaxRuns
        BY BoundsAreNatural DEF TypeOK, Absent
      <3> QED
        <4>1. step' \in Ended \cup Scripts \cup {"export"} /\ job' \in 1 .. 26 /\ save' \in 1 .. 7
          BY <3>1, NextJobTyped
        <4>2. data' \in [CSVs -> Absent .. MaxRuns]
          BY <3>1, <3>2 DEF TypeOK
        <4> QED
          BY <3>1, <4>1, <4>2 DEF TypeOK
    <2>3. CASE WriteFile
      BY <2>3, WriteFileTyped
    <2>4. CASE WriteNothing
      <3>1. /\ step \in Scripts /\ NextJob(Len(Jobs[step]))
            /\ UNCHANGED <<data, out, run, exported, alone, failed, faults>>
        BY <2>4 DEF WriteNothing
      <3>2. Len(Jobs[step]) \in 1 .. 26
        BY <3>1, JobLists
      <3> QED
        BY <3>1, <3>2, NextJobTyped DEF TypeOK
    <2>5. CASE NotebookLacksData
      BY <2>5, JobFailsTyped, ScriptNames DEF NotebookLacksData, TypeOK
    <2>6. CASE FigureFails \/ NotebookFails
      <3>1. faults' \in 0 .. MaxFaults
        BY <2>6, BoundsAreNatural DEF FigureFails, NotebookFails, Fault, TypeOK
      <3> QED
        BY <2>6, <3>1, JobFailsTyped, ScriptNames DEF FigureFails, NotebookFails
    <2>7. CASE QueryFails \/ TableFails \/ Kill
      <3>1. /\ step' \in Ended /\ faults' \in 0 .. MaxFaults
            /\ UNCHANGED <<data, out, job, save, run, exported, alone, failed>>
        BY <2>7, BoundsAreNatural DEF QueryFails, TableFails, Kill, Stop, Fault, TypeOK, Ended
      <3> QED
        BY <3>1 DEF TypeOK
    <2>8. CASE UNCHANGED vars
      BY <2>8 DEF vars, TypeOK
    <2> QED
      BY <2>1, <2>2, <2>3, <2>4, <2>5, <2>6, <2>7, <2>8 DEF Next, Work
  <1> QED
    BY <1>1, <1>2, AlwaysFulfilled, PTL DEF Spec

-----------------------------------------------------------------------------
(* Liveness.  From the charts on a run has 8, 5 and 6 jobs of at most two, *)
(* two and seven files, so each of the three scripts is left by a chain of *)
(* leads-to steps whose length depends on no constant.  The prover cannot  *)
(* evaluate ENABLED: what it means for Work, that one of its guards holds, *)
(* is the hypothesis of the theorem.                                       *)

CanWork ==
  \/ step = "export"
  \/ step \in Scripts /\ (NoResults(Art) \/ Present(Current.needs))
  \/ step = "notebooks" /\ ~Present(Current.needs)

WorkEnabled == CanWork => ENABLED <<Work>>_vars

Leading == {"charts", "tables", "notebooks"}

\* A run of the whole pipeline is about to save file k of job j of script s.
Saving(s, j, k) == step = s /\ ~alone /\ job = j /\ save = k

\* How script s may be left.
Exits == [ charts    |-> {"tables", "killed"},
           tables    |-> {"notebooks", "aborted", "killed"},
           notebooks |-> {"done", "killed"} ]
Left(s) == step \in Exits[s]

LEMMA CanAlwaysWork == Fulfilled /\ step \in Leading => CanWork
  <1> SUFFICES ASSUME Fulfilled, step \in {"charts", "tables"} PROVE Present(Current.needs)
    BY ScriptNames DEF CanWork, Leading
  <1>1. job \in DOMAIN Jobs[step]
    BY ScriptNames DEF Fulfilled, Place
  <1>2. Current.needs = {}
    BY <1>1 DEF Current, Jobs, ChartJobs, TableJobs, Job, PerService
  <1> QED
    BY <1>2 DEF Present

LEMMA Places ==
  Fulfilled =>
    /\ step = "charts" => job \in 1 .. 8 /\ save \in 1 .. 2
    /\ step = "tables" => job \in 1 .. 5 /\ save \in 1 .. 2
    /\ step = "notebooks" => job \in 1 .. 6 /\ save \in 1 .. 7
  <1> SUFFICES ASSUME Fulfilled
               PROVE  /\ step = "charts" => job \in 1 .. 8 /\ save \in 1 .. 2
                      /\ step = "tables" => job \in 1 .. 5 /\ save \in 1 .. 2
                      /\ step = "notebooks" => job \in 1 .. 6 /\ save \in 1 .. 7
    OBVIOUS
  <1>1. step \in Scripts => job \in DOMAIN Jobs[step] /\ save \in DOMAIN Jobs[step][job].saves
    BY DEF Fulfilled, Place, Current
  <1>2. CASE step = "charts"
    <2>1. job \in 1 .. 8 /\ save \in DOMAIN ChartJobs[job].saves
      BY <1>1, <1>2, ScriptNames DEF Jobs, ChartJobs
    <2>2. \E fig : ChartJobs[job].saves = << File(fig, "png"), File(fig, "pdf") >>
      BY <2>1 DEF ChartJobs, Job, SaveFigure
    <2> QED
      BY <1>2, <2>1, <2>2
  <1>3. CASE step = "tables"
    <2>1. job \in 1 .. 5 /\ save \in DOMAIN TableJobs[job].saves
      BY <1>1, <1>3, ScriptNames DEF Jobs, TableJobs
    <2>2. PICK table : TableJobs[job].saves = SaveTable(table)
      BY <2>1 DEF TableJobs, Job
    <2>3. PICK a, b : SaveTable(table) = <<a>> \/ SaveTable(table) = <<a, b>>
      BY DEF SaveTable
    <2>4. DOMAIN <<a>> = 1 .. 1 /\ DOMAIN <<a, b>> = 1 .. 2
      OBVIOUS
    <2>5. save \in 1 .. 2
      BY <2>1, <2>2, <2>3, <2>4
    <2> QED
      BY <1>3, <2>1, <2>5
  <1>4. CASE step = "notebooks"
    <2>1. job \in DOMAIN NotebookJobs /\ save \in DOMAIN NotebookJobs[job].saves
      BY <1>1, <1>4, ScriptNames DEF Jobs
    <2>2. job \in 1 .. 6
      BY <2>1 DEF NotebookJobs
    <2>3. OneSubject(NotebookJobs[job].saves)
      BY <2>1, NotebooksHaveOneSubject
    <2>4. \A n \in 1 .. 7 : 1 .. n \subseteq 1 .. 7
      OBVIOUS
    <2>5. save \in 1 .. 7
      BY <2>1, <2>3, <2>4 DEF OneSubject
    <2> QED
      BY <1>4, <2>2, <2>5
  <1> QED
    BY <1>2, <1>3, <1>4

\* The next job of the script, or the next script.
LEMMA NextPlace ==
  ASSUME NEW s \in Leading, NEW j, NEW k, Saving(s, j, k), UNCHANGED alone,
         NextJob(Len(Jobs[step]))
  PROVE  Saving(s, j + 1, 1)' \/ Left(s)'
  BY DEF NextJob, NextScript, Following, Saving, Left, Exits, Leading

LEMMA WorkGoesOn ==
  ASSUME NEW s \in Leading, NEW j, NEW k, Saving(s, j, k), Work
  PROVE  Saving(s, j, k + 1)' \/ Saving(s, j + 1, 1)' \/ Left(s)'
  <1>1. CASE WriteFile
    BY <1>1, NextPlace DEF WriteFile, Saving
  <1>2. CASE WriteNothing
    BY <1>2, NextPlace DEF WriteNothing
  <1>3. CASE NotebookLacksData
    BY <1>3, NextPlace DEF NotebookLacksData, JobFails
  <1>4. ~ExportOne
    BY DEF ExportOne, Saving, Leading
  <1> QED
    BY <1>1, <1>2, <1>3, <1>4 DEF Work

LEMMA StepGoesOn ==
  ASSUME NEW s \in Leading, NEW j, NEW k, Saving(s, j, k), [Next]_vars
  PROVE  \/ Saving(s, j, k)' \/ Saving(s, j, k + 1)' \/ Saving(s, j + 1, 1)'
         \/ Left(s)'
  <1>1. CASE Work
    BY <1>1, WorkGoesOn
  <1>2. CASE FigureFails \/ NotebookFails
    BY <1>2, NextPlace DEF FigureFails, NotebookFails, JobFails
  <1>3. CASE Kill \/ TableFails
    BY <1>3 DEF Kill, TableFails, Stop, Saving, Left, Exits, Leading
  <1>4. CASE UNCHANGED vars
    BY <1>4 DEF vars, Saving
  <1>5. ~(BeginPipeline \/ BeginSkipExport \/ BeginScript \/ QueryFails)
    BY DEF BeginPipeline, BeginSkipExport, BeginScript, Begin, Ended, QueryFails, Saving, Leading
  <1> QED
    BY <1>1, <1>2, <1>3, <1>4, <1>5 DEF Next

\* Every step stays at file k of job j or goes on, and one of Work goes on: to
\* file m or to job n, the next ones.
Onward(s, j, n, k, m) ==
  /\ Saving(s, j, k) /\ [Next]_vars =>
       Saving(s, j, k)' \/ Saving(s, j, m)' \/ Saving(s, n, 1)' \/ Left(s)'
  /\ Saving(s, j, k) /\ <<Work>>_vars =>
       Saving(s, j, m)' \/ Saving(s, n, 1)' \/ Left(s)'

\* A job of two files, and one of seven, is gone through.
TwoFiles(s, j, n) == Onward(s, j, n, 1, 2) /\ Onward(s, j, n, 2, 3)
SevenFiles(s, j, n) ==
  /\ Onward(s, j, n, 1, 2) /\ Onward(s, j, n, 2, 3) /\ Onward(s, j, n, 3, 4)
  /\ Onward(s, j, n, 4, 5) /\ Onward(s, j, n, 5, 6) /\ Onward(s, j, n, 6, 7)
  /\ Onward(s, j, n, 7, 8)

AtJobOfTwo(s, j) == Saving(s, j, 1) \/ Saving(s, j, 2)
AtJobOfSeven(s, j) ==
  \/ Saving(s, j, 1) \/ Saving(s, j, 2) \/ Saving(s, j, 3) \/ Saving(s, j, 4)
  \/ Saving(s, j, 5) \/ Saving(s, j, 6) \/ Saving(s, j, 7)

LEMMA AlwaysOnward ==
  \A s \in Leading : \A j, n \in 1 .. 9 : n = j + 1 =>
    TwoFiles(s, j, n) /\ SevenFiles(s, j, n)
  <1> SUFFICES ASSUME NEW s \in Leading, NEW j \in 1 .. 9, NEW n \in 1 .. 9, n = j + 1
               PROVE  TwoFiles(s, j, n) /\ SevenFiles(s, j, n)
    OBVIOUS
  <1>1. \A k, m \in 1 .. 8 : m = k + 1 => Onward(s, j, n, k, m)
    BY WorkGoesOn, StepGoesOn DEF Onward
  <1> QED
    BY <1>1 DEF TwoFiles, SevenFiles

\* From the charts on a run of the pipeline gets to the tables or is killed:
\* no figure that fails, and none that has nothing to draw, stops it (main of
\* generate_charts.py, which catches what each figure raises).  It gets
\* through the tables unless one of them fails, and through the notebooks,
\* whichever of them fail (the loop of run-analysis.sh).
THEOREM FiguresLead == Spec /\ []WorkEnabled => FiguresLeadOn
  <1>1. Fulfilled /\ WorkEnabled /\ step \in Leading => ENABLED <<Work>>_vars
    BY CanAlwaysWork DEF WorkEnabled
  <1>2. Spec /\ []WorkEnabled => (step = "charts" /\ ~alone ~> Left("charts"))
    <2>1. /\ TwoFiles("charts", 1, 2) /\ TwoFiles("charts", 2, 3) /\ TwoFiles("charts", 3, 4)
          /\ TwoFiles("charts", 4, 5) /\ TwoFiles("charts", 5, 6) /\ TwoFiles("charts", 6, 7)
          /\ TwoFiles("charts", 7, 8) /\ TwoFiles("charts", 8, 9)
      BY AlwaysOnward DEF Leading
    <2>2. Fulfilled /\ step = "charts" /\ ~alone =>
            \/ AtJobOfTwo("charts", 1) \/ AtJobOfTwo("charts", 2) \/ AtJobOfTwo("charts", 3)
            \/ AtJobOfTwo("charts", 4) \/ AtJobOfTwo("charts", 5) \/ AtJobOfTwo("charts", 6)
            \/ AtJobOfTwo("charts", 7) \/ AtJobOfTwo("charts", 8)
      BY Places DEF AtJobOfTwo, Saving
    <2>3. Fulfilled => ~Saving("charts", 9, 1)
      BY Places DEF Saving
    <2>4. Fulfilled =>
            /\ ~Saving("charts", 1, 3) /\ ~Saving("charts", 2, 3) /\ ~Saving("charts", 3, 3)
            /\ ~Saving("charts", 4, 3) /\ ~Saving("charts", 5, 3) /\ ~Saving("charts", 6, 3)
            /\ ~Saving("charts", 7, 3) /\ ~Saving("charts", 8, 3)
      BY Places DEF Saving
    <2>5. \/ AtJobOfTwo("charts", 1) \/ AtJobOfTwo("charts", 2) \/ AtJobOfTwo("charts", 3)
          \/ AtJobOfTwo("charts", 4) \/ AtJobOfTwo("charts", 5) \/ AtJobOfTwo("charts", 6)
          \/ AtJobOfTwo("charts", 7) \/ AtJobOfTwo("charts", 8)
        => step \in Leading
      BY DEF AtJobOfTwo, Saving, Leading
    <2> QED
      BY <1>1, <2>1, <2>2, <2>3, <2>4, <2>5, AlwaysFulfilled, PTL
         DEF Spec, Onward, TwoFiles, AtJobOfTwo
  <1>3. Spec /\ []WorkEnabled => (step = "tables" /\ ~alone ~> Left("tables"))
    <2>1. /\ TwoFiles("tables", 1, 2) /\ TwoFiles("tables", 2, 3) /\ TwoFiles("tables", 3, 4)
          /\ TwoFiles("tables", 4, 5) /\ TwoFiles("tables", 5, 6)
      BY AlwaysOnward DEF Leading
    <2>2. Fulfilled /\ step = "tables" /\ ~alone =>
            \/ AtJobOfTwo("tables", 1) \/ AtJobOfTwo("tables", 2) \/ AtJobOfTwo("tables", 3)
            \/ AtJobOfTwo("tables", 4) \/ AtJobOfTwo("tables", 5)
      BY Places DEF AtJobOfTwo, Saving
    <2>3. Fulfilled => ~Saving("tables", 6, 1)
      BY Places DEF Saving
    <2>4. Fulfilled =>
            /\ ~Saving("tables", 1, 3) /\ ~Saving("tables", 2, 3) /\ ~Saving("tables", 3, 3)
            /\ ~Saving("tables", 4, 3) /\ ~Saving("tables", 5, 3)
      BY Places DEF Saving
    <2>5. \/ AtJobOfTwo("tables", 1) \/ AtJobOfTwo("tables", 2) \/ AtJobOfTwo("tables", 3)
          \/ AtJobOfTwo("tables", 4) \/ AtJobOfTwo("tables", 5)
        => step \in Leading
      BY DEF AtJobOfTwo, Saving, Leading
    <2> QED
      BY <1>1, <2>1, <2>2, <2>3, <2>4, <2>5, AlwaysFulfilled, PTL
         DEF Spec, Onward, TwoFiles, AtJobOfTwo
  <1>4. Spec /\ []WorkEnabled => (step = "notebooks" /\ ~alone ~> Left("notebooks"))
    <2>1. /\ SevenFiles("notebooks", 1, 2) /\ SevenFiles("notebooks", 2, 3)
          /\ SevenFiles("notebooks", 3, 4) /\ SevenFiles("notebooks", 4, 5)
          /\ SevenFiles("notebooks", 5, 6) /\ SevenFiles("notebooks", 6, 7)
      BY AlwaysOnward DEF Leading
    <2>2. Fulfilled /\ step = "notebooks" /\ ~alone =>
            \/ AtJobOfSeven("notebooks", 1) \/ AtJobOfSeven("notebooks", 2)
            \/ AtJobOfSeven("notebooks", 3) \/ AtJobOfSeven("notebooks", 4)
            \/ AtJobOfSeven("notebooks", 5) \/ AtJobOfSeven("notebooks", 6)
      BY Places DEF AtJobOfSeven, Saving
    <2>3. Fulfilled => ~Saving("notebooks", 7, 1)
      BY Places DEF Saving
    <2>4. Fulfilled =>
            /\ ~Saving("notebooks", 1, 8) /\ ~Saving("notebooks", 2, 8)
            /\ ~Saving("notebooks", 3, 8) /\ ~Saving("notebooks", 4, 8)
            /\ ~Saving("notebooks", 5, 8) /\ ~Saving("notebooks", 6, 8)
      BY Places DEF Saving
    <2>5. \/ AtJobOfSeven("notebooks", 1) \/ AtJobOfSeven("notebooks", 2)
          \/ AtJobOfSeven("notebooks", 3) \/ AtJobOfSeven("notebooks", 4)
          \/ AtJobOfSeven("notebooks", 5) \/ AtJobOfSeven("notebooks", 6)
        => step \in Leading
      BY DEF AtJobOfSeven, Saving, Leading
    <2> QED
      BY <1>1, <2>1, <2>2, <2>3, <2>4, <2>5, AlwaysFulfilled, PTL
         DEF Spec, Onward, SevenFiles, AtJobOfSeven
  <1>5. /\ Left("charts") <=> step \in {"tables", "killed"}
        /\ Left("tables") <=> step \in {"notebooks", "aborted", "killed"}
        /\ Left("notebooks") <=> step \in {"done", "killed"}
    BY DEF Left, Exits
  <1> QED
    BY <1>2, <1>3, <1>4, <1>5, PTL DEF FiguresLeadOn
=============================================================================
