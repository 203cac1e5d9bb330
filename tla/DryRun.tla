------------------------------- MODULE DryRun -------------------------------
(***************************************************************************)
(* One Playwright dry run (backend/app/playwright): the browser engine is  *)
(* started, the posting is opened, the plugin of its applicant tracking    *)
(* system (ATS) fills the form and stops at the submit control, the engine *)
(* is stopped and the verdict is audited.  Applications.tla models the     *)
(* task around it, with Celery's retries of a transient failure.           *)
(*                                                                         *)
(* The web page is the environment: a control appears whenever the site    *)
(* paints it, or never, and a click may land on an element that has no     *)
(* handler yet.  A plugin is a script of steps, as data.                   *)
(***************************************************************************)
EXTENDS Naturals, Sequences

CONSTANTS
  Attempts,      \* calls of a launch or a navigation (max_attempts, 2)
  OpenAttempts,  \* rounds of Ashby's search for the form (8)
  Urls           \* a URL is the set of ATS host names it contains

ASSUME AttemptsAssumption == Attempts \in Nat \ {0} /\ OpenAttempts \in Nat

VARIABLES
  url,       \* the job's application URL
  page,      \* the site: its face, the controls painted, how submit reads
  pc,        \* where the runner is
  tries,     \* failed attempts of the call being retried
  step,      \* the next step of the plugin's script
  open,      \* what the engine holds: driver, browser, context
  botched,   \* closing something failed
  filled,    \* fields_filled
  clicked,   \* the controls clicked
  shots,     \* screenshots written
  result,    \* DryRunResult, as a pair success and submit_button_reached
  exc,       \* the exception that propagates
  verdict,   \* status of the ApplicationRecord returned
  audit      \* the action logged for this run

engineVars == <<open, botched>>
pluginVars == <<step, filled, clicked, result>>
endVars    == <<verdict, audit>>
vars == <<url, page, pc, tries, engineVars, pluginVars, shots, exc, endVars>>

-----------------------------------------------------------------------------
(* The plugins, as data.                                                   *)

Plugins == <<"greenhouse", "lever", "workday", "ashby", "smartrecruiters">>

\* The first plugin that recognises the URL.
PluginFor(u) ==
  LET hits == {i \in DOMAIN Plugins : Plugins[i] \in u}
  IN  IF hits = {} THEN "none"
      ELSE Plugins[CHOOSE i \in hits : \A j \in hits : i <= j]

plugin == PluginFor(url)

\* A step waits for its control, or looks whether it is there at this moment,
\* or tries it and swallows any error.
Need(c, act) == [how |-> "need", what |-> c, act |-> act]
Look(c, act) == [how |-> "look", what |-> c, act |-> act]
Try(c, act)  == [how |-> "try",  what |-> c, act |-> act]

GreenhouseScript == <<Need("first_name", "fill"), Need("last_name", "fill"),
                      Need("email", "fill"), Look("phone", "fill"),
                      Look("resume", "fill"), Try("country", "fill"),
                      Need("submit", "locate")>>

LeverScript == <<Need("name", "fill"), Need("email", "fill"), Look("phone", "fill"),
                 Look("location", "fill"), Look("resume", "fill"),
                 Need("submit", "locate")>>

\* Clicks through to the registration form, the first gate that sends anything.
WorkdayScript == <<Try("cookies", "click"), Need("adventure", "click"),
                   Need("autofill", "click"), Need("flow", "wait"),
                   Try("cookies", "click"), Try("signin", "click"),
                   Need("create", "click"), Need("email", "fill"),
                   Need("password", "fill"), Need("verifyPassword", "fill"),
                   Look("checkbox", "fill"), Need("submit", "locate")>>

AshbyScript == <<Need("name", "fill"), Need("email", "fill"), Look("phone", "fill"),
                 Look("resume", "fill"), Need("submit", "locate")>>

SmartRecruitersScript == <<Need("first_name", "fill"), Need("last_name", "fill"),
                           Need("email", "fill"), Look("phone", "fill"),
                           Look("resume", "fill"), Need("submit", "locate")>>

Script == [greenhouse |-> GreenhouseScript, lever |-> LeverScript,
           workday |-> WorkdayScript, ashby |-> AshbyScript,
           smartrecruiters |-> SmartRecruitersScript]

\* What a plugin fills on every form, without which it reports no success.
Required(p) ==
  {Script[p][i].what : i \in {j \in DOMAIN Script[p] :
                               Script[p][j].how = "need" /\ Script[p][j].act = "fill"}}

\* The controls whose name starts with "apply"; on some pages submit is one.
ApplyButtons == {"apply_job", "apply"} \cup (IF page.submit = "Apply" THEN {"submit"} ELSE {})

\* What leads to the form, in the order tried.
Entries == [ashby |-> <<{"tab"}, {"apply_job"}, ApplyButtons>>,
            smartrecruiters |-> <<{"apply_link"}, ApplyButtons>>]

-----------------------------------------------------------------------------
(* The site.                                                               *)

Opens == [tab |-> "form", apply_job |-> "form", apply |-> "form", apply_link |-> "form",
          adventure |-> "menu", autofill |-> "gate", create |-> "form"]

FormOf(p) == {Script[p][i].what : i \in DOMAIN Script[p]}
             \ {"cookies", "adventure", "autofill", "flow", "signin", "create"}

Layout(p, face) ==
  CASE face = "form"                             -> FormOf(p)
    [] p = "ashby" /\ face = "posting"           -> {"tab", "apply_job", "apply"}
    [] p = "smartrecruiters" /\ face = "posting" -> {"apply_link", "apply"}
    [] p = "workday" /\ face = "posting"         -> {"cookies", "adventure"}
    [] p = "workday" /\ face = "menu"            -> {"autofill"}
    [] p = "workday" /\ face = "gate"            -> {"flow", "cookies", "signin", "create"}
    [] OTHER                                     -> {}

Render ==
  /\ pc \in {"before", "opening", "filling"}
  /\ \E c \in Layout(plugin, page.face) \ page.shown :
       page' = [page EXCEPT !.shown = @ \cup {c}]
  /\ UNCHANGED <<url, pc, tries, engineVars, pluginVars, shots, exc, endVars>>

-----------------------------------------------------------------------------
Init ==
  /\ url \in Urls
  /\ page \in [face : {"posting", "form"}, shown : {{}}, submit : {"Submit application", "Apply"}]
  /\ pc = "start" /\ tries = 0 /\ step = 1
  /\ open = {} /\ botched = FALSE
  /\ filled = {} /\ clicked = {} /\ shots = {}
  /\ result = <<FALSE, FALSE>>
  /\ exc = "none" /\ verdict = "none" /\ audit = "none"

\* No plugin: the run is over before any browser is started.
NoPlugin ==
  /\ pc = "start" /\ plugin = "none"
  /\ verdict' = "failed" /\ pc' = "logging"
  /\ UNCHANGED <<url, page, tries, engineVars, pluginVars, shots, exc, audit>>

\* A driver that does not start is not counted as transient.
StartDriver ==
  /\ pc = "start" /\ plugin # "none"
  /\ \/ open' = {"driver"} /\ pc' = "launch" /\ UNCHANGED exc
     \/ exc' = "raised" /\ pc' = "ended" /\ UNCHANGED open
  /\ UNCHANGED <<url, page, tries, botched, pluginVars, shots, endVars>>

LaunchWorks ==
  /\ pc = "launch"
  /\ open' = open \cup {"browser"}
  /\ tries' = 0 /\ pc' = "session"
  /\ UNCHANGED <<url, page, botched, pluginVars, shots, exc, endVars>>

LaunchRetried ==
  /\ pc = "launch" /\ tries + 1 < Attempts
  /\ tries' = tries + 1
  /\ UNCHANGED <<url, page, pc, engineVars, pluginVars, shots, exc, endVars>>

\* Variant: the driver outlives a launch that failed.
LaunchLeaksDriver ==
  /\ pc = "launch" /\ tries + 1 = Attempts
  /\ exc' = "transient" /\ pc' = "ended"
  /\ UNCHANGED <<url, page, tries, engineVars, pluginVars, shots, endVars>>

\* The last attempt failed: start() stops the driver itself.
LaunchFails ==
  /\ pc = "launch" /\ tries + 1 = Attempts
  /\ \/ open' = {} /\ exc' = "transient" /\ UNCHANGED botched
     \/ botched' = TRUE /\ exc' = "raised" /\ UNCHANGED open
  /\ pc' = "ended"
  /\ UNCHANGED <<url, page, tries, pluginVars, shots, endVars>>

\* A context and its page; the context may exist when the page does not.
OpenSession ==
  /\ pc = "session"
  /\ \/ open' = open \cup {"context"} /\ pc' = "goto" /\ UNCHANGED exc
     \/ /\ open' \in {open, open \cup {"context"}}
        /\ exc' = "raised" /\ pc' = "stopping"
  /\ UNCHANGED <<url, page, tries, botched, pluginVars, shots, endVars>>

GotoWorks ==
  /\ pc = "goto" /\ tries' = 0 /\ pc' = "before"
  /\ UNCHANGED <<url, page, engineVars, pluginVars, shots, exc, endVars>>

GotoRetried ==
  /\ pc = "goto" /\ tries + 1 < Attempts
  /\ tries' = tries + 1
  /\ UNCHANGED <<url, page, pc, engineVars, pluginVars, shots, exc, endVars>>

GotoFails ==
  /\ pc = "goto" /\ tries + 1 = Attempts
  /\ exc' = "transient" /\ pc' = "closing"
  /\ UNCHANGED <<url, page, tries, engineVars, pluginVars, shots, endVars>>

\* The wait for content is best effort; a screenshot that fails is an
\* exception like any other.  Two plugins must first find the form.
Screenshot ==
  \/ /\ pc = "before"
     /\ shots' = shots \cup {"before"}
     /\ pc' = IF plugin \in DOMAIN Entries THEN "opening" ELSE "filling"
     /\ UNCHANGED <<url, page, tries, engineVars, pluginVars, exc, endVars>>
  \/ /\ pc = "after"
     /\ shots' = shots \cup {"after"}
     /\ pc' = "closing"
     /\ UNCHANGED <<url, page, tries, engineVars, pluginVars, exc, endVars>>

\* Variant: a failed screenshot is retried as a transient failure.
ScreenshotRetried ==
  /\ pc \in {"before", "after"}
  /\ exc' = "transient" /\ pc' = "closing"
  /\ UNCHANGED <<url, page, tries, engineVars, pluginVars, shots, endVars>>

ScreenshotFails ==
  /\ pc \in {"before", "after"}
  /\ exc' = "raised" /\ pc' = "closing"
  /\ UNCHANGED <<url, page, tries, engineVars, pluginVars, shots, endVars>>

-----------------------------------------------------------------------------
(* The plugin.                                                             *)

\* A click is lost on an element without its handler, or changes the page.
Click(c) ==
  /\ clicked' = clicked \cup {c}
  /\ \/ UNCHANGED page
     \/ /\ c \in DOMAIN Opens
        /\ page' = [page EXCEPT !.face = Opens[c], !.shown = {}]

\* The form is there: Ashby looks for its name field.
FormThere == plugin = "ashby" /\ "name" \in page.shown

\* The controls of the first entry that matches anything.
Candidates ==
  LET sel == Entries[plugin]
      hit == {i \in DOMAIN sel : sel[i] \cap page.shown # {}}
  IN  IF hit = {} THEN {}
      ELSE sel[CHOOSE i \in hit : \A j \in hit : i <= j] \cap page.shown

\* Ashby clicks or waits, then looks again; SmartRecruiters goes on at once.
NextRound ==
  IF plugin = "ashby" /\ tries + 1 < OpenAttempts
  THEN tries' = tries + 1 /\ UNCHANGED pc
  ELSE tries' = 0 /\ pc' = "filling"

OpenForm ==
  /\ pc = "opening" /\ ~FormThere
  /\ \/ \E c \in Candidates : Click(c)
     \/ Candidates = {} /\ UNCHANGED <<page, clicked>>
  /\ NextRound
  /\ UNCHANGED <<url, engineVars, step, filled, result, shots, exc, endVars>>

FormOpen ==
  /\ pc = "opening" /\ FormThere
  /\ tries' = 0 /\ pc' = "filling"
  /\ UNCHANGED <<url, page, engineVars, pluginVars, shots, exc, endVars>>

Current == Script[plugin][step]

\* Variant: the submit control is clicked once it is located.
StepSubmits ==
  /\ pc = "filling" /\ Current.what \in page.shown
  /\ CASE Current.act = "fill"  -> filled' = filled \cup {Current.what}
                                   /\ UNCHANGED <<page, clicked, result>>
       [] Current.act = "wait"  -> UNCHANGED <<page, clicked, filled, result>>
       [] OTHER                 -> Click(Current.what) /\ UNCHANGED <<filled, result>>
  /\ step' = step + 1 /\ pc' = IF step = Len(Script[plugin]) THEN "after" ELSE pc
  /\ UNCHANGED <<url, tries, engineVars, shots, exc, endVars>>

\* The step finds its control.  The last one locates the submit control and
\* reads whether it is enabled.
StepDone ==
  /\ pc = "filling" /\ Current.what \in page.shown
  /\ \/ /\ Current.act = "fill"
        /\ filled' = filled \cup {Current.what}
        /\ UNCHANGED <<page, clicked, result>>
     \/ /\ Current.act = "click"
        /\ Click(Current.what)
        /\ UNCHANGED <<filled, result>>
     \/ /\ Current.act = "wait"
        /\ UNCHANGED <<page, clicked, filled, result>>
     \/ /\ Current.act = "locate"
        /\ result' \in {<<TRUE, TRUE>>, <<TRUE, FALSE>>}
        /\ UNCHANGED <<page, clicked, filled>>
  /\ IF Current.act = "locate" THEN pc' = "after" /\ UNCHANGED step
                               ELSE step' = step + 1 /\ UNCHANGED pc
  /\ UNCHANGED <<url, tries, engineVars, shots, exc, endVars>>

\* Variant: every step is best effort.
StepSkippedAlways ==
  /\ pc = "filling" /\ Current.act # "locate"
  /\ step' = step + 1
  /\ UNCHANGED <<url, page, pc, tries, engineVars, filled, clicked, result, shots, exc, endVars>>

\* An optional control that is not there now is passed over; an error of a
\* best-effort step is swallowed.
StepSkipped ==
  /\ pc = "filling"
  /\ \/ Current.how = "look" /\ Current.what \notin page.shown
     \/ Current.how = "try"
  /\ step' = step + 1
  /\ UNCHANGED <<url, page, pc, tries, engineVars, filled, clicked, result, shots, exc, endVars>>

\* A timeout or any other error inside the plugin is a failed result.
PluginFails ==
  /\ \/ pc = "opening"
     \/ pc = "filling" /\ Current.how # "try"
  /\ result' = <<FALSE, FALSE>>
  /\ tries' = 0 /\ pc' = "after"
  /\ UNCHANGED <<url, page, engineVars, step, filled, clicked, shots, exc, endVars>>

-----------------------------------------------------------------------------
(* The way out: session's finally, then dry_run's.                         *)

CloseContext ==
  /\ pc = "closing"
  /\ \/ open' = open \ {"context"} /\ UNCHANGED <<exc, botched>>
     \/ exc' = "raised" /\ botched' = TRUE /\ UNCHANGED open
  /\ pc' = "stopping"
  /\ UNCHANGED <<url, page, tries, pluginVars, shots, endVars>>

\* Closing the browser closes its contexts; when it fails, the driver is not
\* stopped.
CloseBrowser ==
  /\ pc = "stopping"
  /\ \/ open' = open \ {"browser", "context"} /\ pc' = "driver" /\ UNCHANGED <<exc, botched>>
     \/ exc' = "raised" /\ botched' = TRUE /\ pc' = "ended" /\ UNCHANGED open
  /\ UNCHANGED <<url, page, tries, pluginVars, shots, endVars>>

StopDriver ==
  /\ pc = "driver"
  /\ \/ open' = open \ {"driver"} /\ UNCHANGED <<exc, botched>>
        /\ pc' = IF exc = "none" THEN "verdict" ELSE "ended"
     \/ exc' = "raised" /\ botched' = TRUE /\ pc' = "ended" /\ UNCHANGED open
  /\ UNCHANGED <<url, page, tries, pluginVars, shots, endVars>>

Judge ==
  /\ pc = "verdict"
  /\ verdict' = IF result[1] /\ result[2] THEN "pending_verification" ELSE "failed"
  /\ pc' = "logging"
  /\ UNCHANGED <<url, page, tries, engineVars, pluginVars, shots, exc, audit>>

\* The verdict is audited and committed before the task stores it.
LogVerdict ==
  /\ pc = "logging"
  /\ \/ /\ audit' = IF verdict = "pending_verification" THEN "dry_run_success" ELSE "dry_run_failed"
        /\ UNCHANGED exc
     \/ exc' = "raised" /\ UNCHANGED audit
  /\ pc' = "ended"
  /\ UNCHANGED <<url, page, tries, engineVars, pluginVars, shots, verdict>>

Ended == pc = "ended" /\ UNCHANGED vars

EngineStep == StartDriver \/ LaunchWorks \/ LaunchRetried \/ LaunchFails \/ OpenSession
              \/ GotoWorks \/ GotoRetried \/ GotoFails \/ Screenshot \/ ScreenshotFails
PluginStep == OpenForm \/ FormOpen \/ StepDone \/ StepSkipped \/ PluginFails
ExitStep   == NoPlugin \/ CloseContext \/ CloseBrowser \/ StopDriver \/ Judge \/ LogVerdict

Next == Render \/ EngineStep \/ PluginStep \/ ExitStep \/ Ended

Spec == Init /\ [][Next]_vars

-----------------------------------------------------------------------------
(* Properties.                                                             *)

Phases == {"start", "launch", "session", "goto", "before", "opening", "filling", "after",
           "closing", "stopping", "driver", "verdict", "logging", "ended"}

\* Every variable keeps its type, and a phase of the plugin has a script to run.
TypeOK ==
  /\ url \in Urls
  /\ page.face \in {"posting", "menu", "gate", "form"}
  /\ pc \in Phases
  /\ tries \in Nat
  /\ open \subseteq {"driver", "browser", "context"} /\ botched \in BOOLEAN
  /\ shots \subseteq {"before", "after"}
  /\ exc \in {"none", "transient", "raised"}
  /\ verdict \in {"none", "pending_verification", "failed"}
  /\ audit \in {"none", "dry_run_success", "dry_run_failed"}
  /\ pc \in {"opening", "filling"} => plugin # "none"
  /\ pc = "filling" => step \in DOMAIN Script[plugin]

\* A dry run never clicks the control that sends the application, except one
\* that reads "Apply" on a page whose plugin looks for the form by that word:
\* there the search for the form cannot tell it from the way in.
NeverSubmits ==
  "submit" \in clicked => page.submit = "Apply" /\ plugin \in {"ashby", "smartrecruiters"}

\* What the end of a run says about it: success only with every required field
\* filled, submit enabled and both screenshots written; a transient failure
\* (repeated by Celery) only when the page was not touched; and the audit
\* entry agrees with the verdict and is missing only after an exception.
OutcomeExplained ==
  /\ verdict = "pending_verification" =>
       /\ Required(plugin) \subseteq filled /\ result = <<TRUE, TRUE>>
       /\ shots = {"before", "after"}
  /\ exc = "transient" => filled = {} /\ clicked = {} /\ shots = {} /\ verdict = "none"
  /\ audit = "dry_run_success" => verdict = "pending_verification"
  /\ (pc = "ended" /\ exc = "none") => verdict # "none" /\ audit # "none"

\* However a run ends, browser, context and driver are closed, unless closing
\* one of them failed.
NothingLeftRunning == (pc = "ended" /\ ~botched) => open = {}

\* For the task that started it, the run is over when dry_run returns or raises.
Contract == INSTANCE DryRunContract WITH
  touched <- filled # {} \/ clicked # {} \/ shots # {},
  entry   <- audit,
  end     <- IF pc # "ended" THEN "running"
             ELSE IF exc # "none" THEN exc
             ELSE IF verdict = "pending_verification" THEN "success" ELSE "failed"
ContractSpec == Contract!Spec
=============================================================================
