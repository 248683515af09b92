------------------------------ MODULE Readiness ------------------------------
(***************************************************************************)
(* What `prepare_submission` says is ready (mcp/src/tools/submission.ts),  *)
(* from the test runs the server remembers (mcp/src/tools/build.ts,        *)
(* mcp/src/fingerprint.ts), while the author edits the sources and other   *)
(* requests run: the server serves requests side by side.                  *)
(*                                                                         *)
(* The sources are a version, a new one at each save; a fingerprint is of  *)
(* paths, sizes and times, and no two versions share one. The CLI reads    *)
(* the sources of a test run at its start. The other items of the          *)
(* checklist are read together with `check`.                               *)
(***************************************************************************)
EXTENDS Naturals

CONSTANTS
    TestCalls,      \* concurrent calls of `test` and `update_reference_images`
    MaxEdits,       \* bound: versions saved, by the author or by an update
    NoTest          \* model value: a folder `lastTests` does not know

ASSUME ReadyAssumption == MaxEdits \in Nat

VARIABLES
    disk,           \* the version in the folder
    passing,        \* versions all of whose scenarios pass
    clean,          \* versions the other items accept
    lastTests,      \* the remembered run of the folder, or NoTest
    calls,          \* the test calls
    prep            \* the preparation
readyVars == <<disk, passing, clean, lastTests, calls, prep>>

Saves == 0..MaxEdits

\* A remembered run: `complete` when every scenario ran; `steady` is history:
\* nothing was saved between its start and its record.
Records == [fingerprint : Saves, failed : BOOLEAN, complete : BOOLEAN, steady : BOOLEAN]

ReadyTypeOK ==
    /\ disk \in Saves /\ passing \subseteq 0..disk /\ clean \subseteq 0..disk
    /\ lastTests \in Records \cup {NoTest}
    /\ calls \in [TestCalls -> [phase : {"idle", "runs", "reported"},
                                kind : {"every", "one", "update"},
                                failed : BOOLEAN, steady : BOOLEAN]]
    /\ prep \in [phase : {"idle", "checked", "compared", "selected", "answered"},
                 clean : BOOLEAN, tested : BOOLEAN, steady : BOOLEAN,
                 selected : Saves, zipped : Saves, ready : BOOLEAN]

Idle == [phase |-> "idle", kind |-> "every", failed |-> FALSE, steady |-> TRUE]
Unasked == [phase |-> "idle", clean |-> FALSE, tested |-> FALSE, steady |-> TRUE,
            selected |-> 0, zipped |-> 0, ready |-> FALSE]

ReadyInit ==
    /\ disk = 0 /\ lastTests = NoTest
    /\ passing \in SUBSET {0} /\ clean \in SUBSET {0}
    /\ calls = [t \in TestCalls |-> Idle] /\ prep = Unasked

\* A save at this moment, for the calls it falls into.
Disturbed == [t \in TestCalls |->
                [calls[t] EXCEPT !.steady = @ /\ calls[t].phase \notin {"runs", "reported"}]]
PrepDisturbed == [prep EXCEPT !.steady = @ /\ prep.phase \in {"idle", "answered"}]

\* The sources become a version that passes, or does not.
NewVersion ==
    /\ disk < MaxEdits /\ disk' = disk + 1
    /\ passing' \in {passing, passing \cup {disk + 1}}
    /\ clean' \in {clean, clean \cup {disk + 1}}
    /\ prep' = PrepDisturbed /\ UNCHANGED lastTests

Edit == NewVersion /\ calls' = Disturbed

\* The CLI builds the package from the sources and plays the scenarios asked
\* for; one scenario may pass where another fails.
TestFails(kind) ==
    IF kind = "update" \/ disk \in passing THEN {FALSE}
    ELSE IF kind = "one" THEN BOOLEAN ELSE {TRUE}
BeginTest(t) ==
    /\ calls[t].phase = "idle"
    /\ \E kind \in {"every", "one", "update"} : \E failed \in TestFails(kind) :
         calls' = [calls EXCEPT ![t] = [phase |-> "runs", kind |-> kind,
                                        failed |-> failed, steady |-> TRUE]]
    /\ UNCHANGED <<disk, passing, clean, lastTests, prep>>

\* The CLI's report. An update has written the reference images, which are
\* sources. Cancelled, not built: nothing ran, and nothing is remembered.
TestReported(t) ==
    /\ calls[t].phase = "runs"
    /\ \/ /\ calls[t].kind = "update"
          /\ NewVersion /\ calls' = [Disturbed EXCEPT ![t] = [calls[t] EXCEPT !.phase = "reported"]]
       \/ /\ calls[t].kind # "update"
          /\ calls' = [calls EXCEPT ![t].phase = "reported"]
          /\ UNCHANGED <<disk, passing, clean, lastTests, prep>>
TestNotRun(t) ==
    /\ calls[t].phase = "runs"
    /\ calls' = [calls EXCEPT ![t] = Idle]
    /\ UNCHANGED <<disk, passing, clean, lastTests, prep>>

\* Mutant of Remembered: an update counts.
RememberedAny(call) ==
    [fingerprint |-> disk, failed |-> call.failed,
     complete |-> call.kind # "one", steady |-> call.steady]

\* What `lastTests.set` keeps, with the fingerprint of the sources as they
\* are now. "Only a plain run counts for the submission."
Remembered(call) ==
    IF call.kind = "update" THEN lastTests
    ELSE [fingerprint |-> disk, failed |-> call.failed,
          complete |-> call.kind = "every", steady |-> call.steady]

RecordTest(t) ==
    /\ calls[t].phase = "reported"
    /\ lastTests' = Remembered(calls[t])
    /\ calls' = [calls EXCEPT ![t] = Idle]
    /\ UNCHANGED <<disk, passing, clean, prep>>

\* `check`, the admission, the audit and the rest.
PrepCheck ==
    /\ prep.phase \in {"idle", "answered"}
    /\ prep' = [Unasked EXCEPT !.phase = "checked", !.clean = disk \in clean]
    /\ UNCHANGED <<disk, passing, clean, lastTests, calls>>

\* Mutant of PassedRun: any scenario counts for all of them.
PassedRunPart == lastTests # NoTest /\ lastTests.fingerprint = disk /\ ~lastTests.failed

\* `passedRun`: the remembered run was complete, passed, and its fingerprint
\* is that of the sources.
PassedRun ==
    /\ lastTests # NoTest
    /\ lastTests.fingerprint = disk /\ lastTests.complete /\ ~lastTests.failed

\* Whether that run was steady rides along, for the property.
PrepCompare ==
    /\ prep.phase = "checked"
    /\ prep' = [prep EXCEPT !.phase = "compared", !.tested = PassedRun,
                            !.steady = @ /\ (PassedRun => lastTests.steady)]
    /\ UNCHANGED <<disk, passing, clean, lastTests, calls>>

\* `selectSources`: the files to send and their sizes.
PrepSelect ==
    /\ prep.phase = "compared"
    /\ prep' = [prep EXCEPT !.phase = "selected", !.selected = disk]
    /\ UNCHANGED <<disk, passing, clean, lastTests, calls>>

\* The ZIP, unless an item fails; a file whose size is no longer the selected
\* one fails it. Then the answer.
PrepAnswer ==
    /\ prep.phase = "selected"
    /\ \E written \in BOOLEAN :
         /\ written => prep.clean /\ prep.tested
         /\ ~written => ~prep.clean \/ ~prep.tested \/ disk # prep.selected
         /\ prep' = [Unasked EXCEPT !.phase = "answered", !.ready = written,
                                    !.steady = prep.steady \/ ~written,
                                    !.zipped = IF written THEN disk ELSE @]
    /\ UNCHANGED <<disk, passing, clean, lastTests, calls>>

ReadyNext ==
    \/ Edit
    \/ \E t \in TestCalls : BeginTest(t) \/ TestReported(t) \/ TestNotRun(t) \/ RecordTest(t)
    \/ PrepCheck \/ PrepCompare \/ PrepSelect \/ PrepAnswer

ReadySpec == ReadyInit /\ [][ReadyNext]_readyVars
-----------------------------------------------------------------------------
\* submission.ts: "All scenarios passed, and no source changed since", with
\* check, admission and audit clean: so is the ZIP of every answer that says
\* ready, where nothing was saved during the test run it counts on nor during
\* the preparation. The run of one scenario, an update of the references, a
\* save or an update between the two calls never makes it so.
ReadyUnlessDisturbed ==
    prep.phase = "answered" /\ prep.ready /\ prep.steady
        => prep.zipped \in passing /\ prep.zipped \in clean

\* fingerprint.ts compares with the fingerprint "taken when the tests last
\* passed, to know whether they still stand": what is ready was tested. The
\* fingerprint is taken after the tests ran: a save made while they run is in
\* it, and the checklist says passed of sources no test has seen.
ReadyIsTested ==
    prep.phase = "answered" /\ prep.ready => prep.zipped \in passing
=============================================================================
