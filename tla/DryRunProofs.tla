------------------------------ MODULE DryRunProofs ------------------------------
(***************************************************************************)
(* Proofs about DryRun, for any URLs, any number of attempts and any page. *)
(***************************************************************************)
EXTENDS DryRun, TLAPS

(***************************************************************************)
(* The scripts: locating the submit control is the last step and the only  *)
(* one of its kind, and it cannot be passed over.                          *)
(***************************************************************************)

Scripted == {"greenhouse", "lever", "workday", "ashby", "smartrecruiters"}

Shaped(script) ==
  /\ Len(script) \in Nat \ {0} /\ DOMAIN script = 1..Len(script)
  /\ \A i \in DOMAIN script :
       /\ script[i].act = "locate" <=> i = Len(script)
       /\ script[i].act = "locate" => script[i].how = "need"

LEMMA ScriptShape == \A p \in Scripted : Shaped(Script[p])
<1> USE DEF Need, Look, Try, Shaped
<1>1. Shaped(GreenhouseScript)
  BY DEF GreenhouseScript
<1>2. Shaped(LeverScript)
  BY DEF LeverScript
<1>3. Shaped(WorkdayScript)
  BY DEF WorkdayScript
<1>4. Shaped(AshbyScript)
  BY DEF AshbyScript
<1>5. Shaped(SmartRecruitersScript)
  BY DEF SmartRecruitersScript
<1> HIDE DEF Shaped
<1> QED BY <1>1, <1>2, <1>3, <1>4, <1>5 DEF Script, Scripted

\* The first of the plugins that recognise the URL is one of them.
LEMMA PluginKnown == plugin # "none" => plugin \in Scripted
<1> SUFFICES ASSUME plugin # "none" PROVE plugin \in Scripted
  OBVIOUS
<1> DEFINE hits == {i \in DOMAIN Plugins : Plugins[i] \in url}
<1>1. DOMAIN Plugins = 1..5 /\ \A i \in 1..5 : Plugins[i] \in Scripted
  BY DEF Plugins, Scripted
<1>2. hits # {} /\ plugin = Plugins[CHOOSE i \in hits : \A j \in hits : i <= j]
  BY DEF plugin, PluginFor
<1>3. hits \subseteq 1..5
  BY <1>1
<1>4. \E i \in hits : \A j \in hits : i <= j
  BY <1>2, <1>3
<1> HIDE DEF hits
<1> QED BY <1>1, <1>2, <1>3, <1>4

LEMMA OpensFaces == \A c \in DOMAIN Opens : Opens[c] \in {"form", "menu", "gate"}
  BY DEF Opens

(***************************************************************************)
(* Types, and the phases: what has not been touched before a phase, and    *)
(* what must have happened by then.                                        *)
(***************************************************************************)

PageShape == page = [face |-> page.face, shown |-> page.shown, submit |-> page.submit]

BeforeThePage == {"start", "launch", "session", "goto"}

\* The script is begun at its first step, and there is one once a browser is started.
AtFirstStep ==
  /\ pc \in BeforeThePage \cup {"before", "opening"} => step = 1
  /\ pc \in (BeforeThePage \ {"start"}) \cup {"before"} => plugin # "none"

TypeInv == TypeOK /\ PageShape /\ AtFirstStep

AtWork        == BeforeThePage \cup {"before", "opening", "filling", "after"}
WayOut        == {"closing", "stopping", "driver", "verdict"}

Untouched ==
  /\ pc \in BeforeThePage => filled = {} /\ clicked = {} /\ shots = {}
  /\ pc = "before" => shots = {}
  /\ pc \in BeforeThePage \cup {"before", "opening", "filling"} => result = <<FALSE, FALSE>>

NotOver ==
  /\ pc \in AtWork => exc = "none"
  /\ pc \in AtWork \cup WayOut => verdict = "none" /\ audit = "none"
  /\ pc \in {"verdict", "logging"} => exc = "none"
  /\ pc = "logging" => verdict # "none" /\ audit = "none"

Phased == Untouched /\ NotOver

Filled(n) ==
  \A i \in DOMAIN Script[plugin] :
    i < n /\ Script[plugin][i].how = "need" /\ Script[plugin][i].act = "fill"
      => Script[plugin][i].what \in filled

\* A phase of the plugin has filled what its script asked for so far, and a
\* success what the whole script asks for.
Scripts ==
  /\ pc = "filling" => Filled(step)
  /\ result \in {<<FALSE, FALSE>>, <<TRUE, FALSE>>, <<TRUE, TRUE>>}
  /\ result # <<FALSE, FALSE>> => Required(plugin) \subseteq filled

Photographed ==
  /\ pc \in {"opening", "filling", "after"} => "before" \in shots
  /\ pc \in WayOut /\ exc = "none" => shots = {"before", "after"}

LEMMA TypeStep == TypeInv /\ [Next]_vars => TypeInv'
<1> SUFFICES ASSUME TypeInv, [Next]_vars PROVE TypeInv'
  OBVIOUS
<1> USE DEF TypeInv, TypeOK, PageShape, Phases, AtFirstStep, BeforeThePage, engineVars, pluginVars, endVars
<1>p. plugin' = plugin
  <2>1. url' = url
    BY DEF Next, Render, EngineStep, PluginStep, ExitStep, Ended, vars, StartDriver,
           LaunchWorks, LaunchRetried, LaunchFails, OpenSession, GotoWorks, GotoRetried,
           GotoFails, Screenshot, ScreenshotFails, OpenForm, FormOpen, StepDone,
           StepSkipped, PluginFails, NoPlugin, CloseContext, CloseBrowser, StopDriver,
           Judge, LogVerdict
  <2> QED BY <2>1 DEF plugin, PluginFor
<1>c. ASSUME NEW c, Click(c)
      PROVE  PageShape' /\ page'.face \in {"posting", "menu", "gate", "form"}
  <2>1. CASE page' = page
    BY <2>1
  <2>2. CASE c \in DOMAIN Opens /\ page' = [page EXCEPT !.face = Opens[c], !.shown = {}]
    <3>1. Opens[c] \in {"form", "menu", "gate"}
      BY <2>2, OpensFaces
    <3>2. page' = [face |-> Opens[c], shown |-> {}, submit |-> page.submit]
      BY <2>2
    <3> QED BY <3>1, <3>2
  <2> QED BY <1>c, <2>1, <2>2 DEF Click
<1>f. plugin # "none" => Shaped(Script[plugin]) /\ 1 \in DOMAIN Script[plugin]
  BY PluginKnown, ScriptShape DEF Shaped
<1>s. ASSUME pc = "filling"
      PROVE  /\ step \in DOMAIN Script[plugin]
             /\ Current.act # "locate" => step + 1 \in DOMAIN Script[plugin]
             /\ Current.act = "locate" => Current.how = "need"
  <2>1. Shaped(Script[plugin])
    BY <1>s, <1>f
  <2>2. step \in DOMAIN Script[plugin]
    BY <1>s
  <2> QED BY <2>1, <2>2 DEF Shaped, Current
<1>1. CASE Render
  <2>1. PICK c \in Layout(plugin, page.face) \ page.shown :
          page' = [page EXCEPT !.shown = @ \cup {c}]
    BY <1>1 DEF Render
  <2>2. page' = [face |-> page.face, shown |-> page.shown \cup {c}, submit |-> page.submit]
    BY <2>1
  <2> QED BY <1>1, <1>p, <2>2 DEF Render
<1>2. CASE EngineStep
  <2>1. CASE StartDriver
    BY <1>p, <2>1 DEF StartDriver
  <2>2. CASE LaunchWorks \/ LaunchRetried
    BY <1>p, <2>2, AttemptsAssumption DEF LaunchWorks, LaunchRetried
  <2>3. CASE LaunchFails
    BY <1>p, <2>3 DEF LaunchFails
  <2>4. CASE OpenSession
    BY <1>p, <2>4 DEF OpenSession
  <2>5. CASE GotoWorks \/ GotoRetried \/ GotoFails
    BY <1>p, <2>5, AttemptsAssumption DEF GotoWorks, GotoRetried, GotoFails
  <2>6. CASE Screenshot
    BY <1>p, <1>f, <2>6 DEF Screenshot
  <2>7. CASE ScreenshotFails
    BY <1>p, <2>7 DEF ScreenshotFails
  <2> QED BY <1>2, <2>1, <2>2, <2>3, <2>4, <2>5, <2>6, <2>7 DEF EngineStep
<1>3. CASE PluginStep
  <2>1. CASE OpenForm
    <3>1. PageShape' /\ page'.face \in {"posting", "menu", "gate", "form"}
      BY <1>c, <2>1 DEF OpenForm
    <3>2. tries' \in Nat /\ pc' \in {"opening", "filling"} /\ pc = "opening"
      BY <2>1, AttemptsAssumption DEF OpenForm, NextRound
    <3>3. UNCHANGED <<url, open, botched, step, shots, exc, verdict, audit>>
      BY <2>1 DEF OpenForm
    <3> QED BY <1>p, <1>f, <3>1, <3>2, <3>3
  <2>2. CASE FormOpen
    BY <1>p, <1>f, <2>2 DEF FormOpen
  <2>3. CASE StepDone
    <3>1. PageShape' /\ page'.face \in {"posting", "menu", "gate", "form"}
      <4>1. CASE page' = page
        BY <4>1
      <4>2. CASE Click(Current.what)
        BY <4>2, <1>c
      <4> QED BY <2>3, <4>1, <4>2 DEF StepDone
    <3>2. pc' \in {"filling", "after"} /\ (pc' = "filling" => step' \in DOMAIN Script[plugin])
      BY <2>3, <1>s DEF StepDone
    <3>3. UNCHANGED <<url, tries, open, botched, shots, exc, verdict, audit>>
          /\ pc = "filling"
      BY <2>3 DEF StepDone
    <3> QED BY <1>p, <3>1, <3>2, <3>3
  <2>4. CASE StepSkipped
    <3>1. Current.how # "need"
      BY <2>4 DEF StepSkipped
    <3> QED BY <1>p, <1>s, <2>4, <3>1 DEF StepSkipped
  <2>5. CASE PluginFails
    BY <1>p, <2>5 DEF PluginFails
  <2> QED BY <1>3, <2>1, <2>2, <2>3, <2>4, <2>5 DEF PluginStep
<1>4. CASE ExitStep
  <2>1. CASE NoPlugin
    BY <1>p, <2>1 DEF NoPlugin
  <2>2. CASE CloseContext
    BY <1>p, <2>2 DEF CloseContext
  <2>3. CASE CloseBrowser
    BY <1>p, <2>3 DEF CloseBrowser
  <2>4. CASE StopDriver
    BY <1>p, <2>4 DEF StopDriver
  <2>5. CASE Judge
    BY <1>p, <2>5 DEF Judge
  <2>6. CASE LogVerdict
    BY <1>p, <2>6 DEF LogVerdict
  <2> QED BY <1>4, <2>1, <2>2, <2>3, <2>4, <2>5, <2>6 DEF ExitStep
<1>5. CASE UNCHANGED vars
  BY <1>p, <1>5 DEF vars
<1> QED BY <1>1, <1>2, <1>3, <1>4, <1>5 DEF Next, Ended

LEMMA TypeInit == Init => TypeInv
<1> SUFFICES ASSUME Init PROVE TypeInv
  OBVIOUS
<1>1. page \in [face : {"posting", "form"}, shown : {{}}, submit : {"Submit application", "Apply"}]
  BY DEF Init
<1>2. PageShape /\ page.face \in {"posting", "form"}
  BY <1>1 DEF PageShape
<1> QED BY <1>2 DEF Init, TypeInv, TypeOK, AtFirstStep, BeforeThePage, Phases

\* Every variable keeps its type, and the plugin never runs past its script.
THEOREM TypeCorrect == Spec => []TypeOK
<1>1. TypeInv => TypeOK
  BY DEF TypeInv
<1> QED BY <1>1, TypeInit, TypeStep, PTL DEF Spec

LEMMA SameUrl == [Next]_vars => plugin' = plugin /\ Required(plugin)' = Required(plugin)
<1> SUFFICES ASSUME [Next]_vars PROVE plugin' = plugin /\ Required(plugin)' = Required(plugin)
  OBVIOUS
<1>1. url' = url
  BY DEF Next, Render, EngineStep, PluginStep, ExitStep, Ended, vars, StartDriver,
         LaunchWorks, LaunchRetried, LaunchFails, OpenSession, GotoWorks, GotoRetried,
         GotoFails, Screenshot, ScreenshotFails, OpenForm, FormOpen, StepDone,
         StepSkipped, PluginFails, NoPlugin, CloseContext, CloseBrowser, StopDriver,
         Judge, LogVerdict
<1> QED BY <1>1 DEF plugin, PluginFor, Required

\* What the phases and the scripts say is kept by every step.
LEMMA ScriptsStep == TypeInv /\ Untouched /\ Scripts /\ [Next]_vars => Scripts'
<1> SUFFICES ASSUME TypeInv, Untouched, Scripts, [Next]_vars PROVE Scripts'
  OBVIOUS
<1> USE DEF engineVars, pluginVars, endVars
<1>p. plugin' = plugin /\ Required(plugin)' = Required(plugin)
  BY SameUrl
<1>k. ASSUME UNCHANGED <<filled, result, step>>, pc' = "filling" => pc = "filling"
      PROVE  Scripts'
  BY <1>k, <1>p DEF Scripts, Filled
<1>t. TypeInv'
  BY TypeStep
<1>f. plugin # "none" => DOMAIN Script[plugin] = 1..Len(Script[plugin])
                         /\ Len(Script[plugin]) \in Nat
                         /\ Shaped(Script[plugin])
  BY PluginKnown, ScriptShape DEF Shaped
<1>b. ASSUME step' = 1, result' = <<FALSE, FALSE>> PROVE Scripts'
  <2>1. CASE pc' = "filling"
    <3>1. plugin # "none"
      BY <1>p, <1>t, <2>1 DEF TypeInv, TypeOK
    <3>2. \A n \in DOMAIN Script[plugin] : ~(n < 1)
      BY <3>1, <1>f
    <3> QED BY <1>b, <1>p, <2>1, <3>2 DEF Scripts, Filled
  <2>2. CASE pc' # "filling"
    BY <1>b, <2>2 DEF Scripts
  <2> QED BY <2>1, <2>2
<1>1. CASE Render
  BY <1>1, <1>k DEF Render
<1>2. CASE EngineStep
  <2>1. CASE Screenshot
    <3>1. CASE pc = "before"
      <4>1. step' = 1 /\ result' = <<FALSE, FALSE>>
        BY <2>1, <3>1 DEF Screenshot, TypeInv, AtFirstStep, Untouched
      <4> QED BY <4>1, <1>b
    <3>2. CASE pc = "after"
      BY <2>1, <3>2, <1>k DEF Screenshot
    <3> QED BY <2>1, <3>1, <3>2 DEF Screenshot
  <2>2. CASE StartDriver \/ LaunchWorks \/ LaunchRetried \/ LaunchFails \/ OpenSession
             \/ GotoWorks \/ GotoRetried \/ GotoFails \/ ScreenshotFails
    BY <2>2, <1>k DEF StartDriver, LaunchWorks, LaunchRetried, LaunchFails, OpenSession,
                      GotoWorks, GotoRetried, GotoFails, ScreenshotFails
  <2> QED BY <1>2, <2>1, <2>2 DEF EngineStep
<1>3. CASE PluginStep
  <2>1. CASE OpenForm \/ FormOpen
    <3>1. step' = 1 /\ result' = <<FALSE, FALSE>>
      BY <2>1 DEF OpenForm, FormOpen, TypeInv, AtFirstStep, Untouched
    <3> QED BY <3>1, <1>b
  <2>2. CASE StepDone
    <3>1. /\ pc = "filling" /\ plugin # "none" /\ step \in DOMAIN Script[plugin]
          /\ Filled(step) /\ filled \subseteq filled'
      BY <2>2 DEF StepDone, TypeInv, TypeOK, Scripts
    <3>2. CASE Current.act = "locate"
      <4>1. result' \in {<<TRUE, TRUE>>, <<TRUE, FALSE>>} /\ pc' = "after" /\ filled' = filled
        BY <2>2, <3>2 DEF StepDone
      <4>2. step = Len(Script[plugin])
        BY <3>1, <3>2, <1>f DEF Current, Shaped
      <4>3. \A n \in DOMAIN Script[plugin] : Script[plugin][n].act = "fill" => n < step
        BY <3>1, <3>2, <4>2, <1>f DEF Current, Shaped
      <4>4. Required(plugin) \subseteq filled
        BY <3>1, <4>3 DEF Required, Filled
      <4> QED BY <4>1, <4>4, <1>p DEF Scripts
    <3>3. CASE Current.act # "locate"
      <4>1. step' = step + 1 /\ pc' = "filling" /\ result' = result
            /\ (Current.act = "fill" => Current.what \in filled')
        BY <2>2, <3>1, <3>3 DEF StepDone
      <4>2. \A n \in DOMAIN Script[plugin] : n < step + 1 => n < step \/ n = step
        BY <3>1, <1>f
      <4>3. ASSUME NEW n \in DOMAIN Script[plugin], n < step + 1,
                   Script[plugin][n].how = "need", Script[plugin][n].act = "fill"
            PROVE  Script[plugin][n].what \in filled'
        BY <3>1, <4>1, <4>2, <4>3 DEF Filled, Current
      <4>4. result' = <<FALSE, FALSE>>
        BY <3>1, <4>1 DEF Untouched
      <4> QED BY <4>1, <4>3, <4>4, <1>p DEF Scripts, Filled
    <3> QED BY <3>2, <3>3
  <2>3. CASE StepSkipped
    <3>1. /\ pc = "filling" /\ plugin # "none" /\ step \in DOMAIN Script[plugin]
          /\ Filled(step) /\ Script[plugin][step].how # "need"
      BY <2>3 DEF StepSkipped, Current, TypeInv, TypeOK, Scripts
    <3>2. \A n \in DOMAIN Script[plugin] : n < step + 1 => n < step \/ n = step
      BY <3>1, <1>f
    <3>3. step' = step + 1 /\ UNCHANGED <<pc, filled, result>>
      BY <2>3 DEF StepSkipped
    <3>4. ASSUME NEW n \in DOMAIN Script[plugin], n < step + 1,
                 Script[plugin][n].how = "need", Script[plugin][n].act = "fill"
          PROVE  Script[plugin][n].what \in filled
      BY <3>1, <3>2, <3>4 DEF Filled
    <3> QED BY <3>3, <3>4, <1>p DEF Scripts, Filled
  <2>4. CASE PluginFails
    BY <2>4 DEF PluginFails, Scripts
  <2> QED BY <1>3, <2>1, <2>2, <2>3, <2>4 DEF PluginStep
<1>4. CASE ExitStep
  BY <1>4, <1>k DEF ExitStep, NoPlugin, CloseContext, CloseBrowser, StopDriver, Judge,
                    LogVerdict
<1>5. CASE UNCHANGED vars
  BY <1>5, <1>k DEF vars
<1> QED BY <1>1, <1>2, <1>3, <1>4, <1>5 DEF Next, Ended

LEMMA PhasedStep == TypeInv /\ Phased /\ Photographed /\ [Next]_vars => (Phased /\ Photographed)'
<1> SUFFICES ASSUME TypeInv, Phased, Photographed, [Next]_vars PROVE (Phased /\ Photographed)'
  OBVIOUS
<1> USE DEF Phased, Untouched, NotOver, Photographed, BeforeThePage, AtWork, WayOut,
            engineVars, pluginVars, endVars
<1>t. shots \subseteq {"before", "after"}
  BY DEF TypeInv, TypeOK
<1>1. CASE Render
  BY <1>1 DEF Render
<1>2. CASE EngineStep
  <2>1. CASE StartDriver \/ LaunchWorks \/ LaunchRetried \/ LaunchFails \/ OpenSession
    BY <2>1 DEF StartDriver, LaunchWorks, LaunchRetried, LaunchFails, OpenSession
  <2>2. CASE GotoWorks \/ GotoRetried \/ GotoFails \/ ScreenshotFails
    BY <2>2 DEF GotoWorks, GotoRetried, GotoFails, ScreenshotFails
  <2>3. CASE Screenshot
    BY <2>3, <1>t DEF Screenshot
  <2> QED BY <1>2, <2>1, <2>2, <2>3 DEF EngineStep
<1>3. CASE PluginStep
  <2>1. CASE OpenForm
    BY <2>1 DEF OpenForm, NextRound
  <2>2. CASE FormOpen \/ StepSkipped \/ PluginFails
    BY <2>2 DEF FormOpen, StepSkipped, PluginFails
  <2>3. CASE StepDone
    <3>1. /\ pc = "filling" /\ pc' \in {"filling", "after"}
          /\ pc' = "filling" => result' = result
      BY <2>3 DEF StepDone
    <3>2. UNCHANGED <<shots, exc, verdict, audit>>
      BY <2>3 DEF StepDone
    <3> QED BY <3>1, <3>2
  <2> QED BY <1>3, <2>1, <2>2, <2>3 DEF PluginStep
<1>4. CASE ExitStep
  <2>1. CASE NoPlugin \/ CloseContext \/ CloseBrowser
    BY <2>1 DEF NoPlugin, CloseContext, CloseBrowser
  <2>2. CASE StopDriver \/ Judge \/ LogVerdict
    BY <2>2 DEF StopDriver, Judge, LogVerdict
  <2> QED BY <1>4, <2>1, <2>2 DEF ExitStep
<1>5. CASE UNCHANGED vars
  BY <1>5 DEF vars
<1> QED BY <1>1, <1>2, <1>3, <1>4, <1>5 DEF Next, Ended

Ledger == TypeInv /\ Phased /\ Photographed /\ Scripts

LEMMA LedgerInvariant == Spec => []Ledger
<1>1. Init => Phased /\ Photographed /\ Scripts
  <2> SUFFICES ASSUME Init PROVE Phased /\ Photographed /\ Scripts
    OBVIOUS
  <2>1. pc = "start" /\ filled = {} /\ clicked = {} /\ shots = {} /\ result = <<FALSE, FALSE>>
        /\ exc = "none" /\ verdict = "none" /\ audit = "none"
    BY DEF Init
  <2> QED BY <2>1 DEF Phased, Untouched, NotOver, Photographed, Scripts, BeforeThePage,
                      AtWork, WayOut
<1>2. Ledger /\ [Next]_vars => Ledger'
  BY TypeStep, PhasedStep, ScriptsStep DEF Ledger, Phased
<1> QED BY <1>1, <1>2, TypeInit, PTL DEF Spec, Ledger

LEMMA OutcomeStep == Ledger /\ OutcomeExplained /\ [Next]_vars => OutcomeExplained'
<1> SUFFICES ASSUME Ledger, OutcomeExplained, [Next]_vars PROVE OutcomeExplained'
  OBVIOUS
<1> USE DEF engineVars, pluginVars, endVars
<1>h. TypeInv /\ Phased /\ Photographed /\ Scripts
  BY DEF Ledger
<1>p. plugin' = plugin /\ Required(plugin)' = Required(plugin)
  BY SameUrl
<1>w. ASSUME pc \in AtWork, verdict' = "none", audit' = "none", exc' # "transient",
             pc' = "ended" => exc' # "none"
      PROVE  OutcomeExplained'
  BY <1>w DEF OutcomeExplained
<1>n. pc \in AtWork => exc = "none" /\ verdict = "none" /\ audit = "none"
  BY <1>h DEF Phased, NotOver
<1>1. CASE Render
  BY <1>1, <1>n, <1>w DEF Render, AtWork, BeforeThePage
<1>2. CASE EngineStep
  <2>1. CASE StartDriver \/ LaunchWorks \/ LaunchRetried \/ OpenSession \/ GotoWorks
             \/ GotoRetried \/ Screenshot \/ ScreenshotFails
    <3>1. pc \in AtWork /\ UNCHANGED <<verdict, audit>>
          /\ ((exc' = exc /\ pc' # "ended") \/ exc' = "raised")
      BY <2>1 DEF StartDriver, LaunchWorks, LaunchRetried, OpenSession, GotoWorks,
           GotoRetried, Screenshot, ScreenshotFails, AtWork, BeforeThePage
    <3> QED BY <3>1, <1>n, <1>w
  <2>2. CASE LaunchFails \/ GotoFails
    <3>1. pc \in {"launch", "goto"} /\ exc' \in {"transient", "raised"}
          /\ UNCHANGED <<filled, clicked, shots, verdict, audit>>
      BY <2>2 DEF LaunchFails, GotoFails
    <3>2. filled = {} /\ clicked = {} /\ shots = {} /\ verdict = "none" /\ audit = "none"
      BY <3>1, <1>h, <1>n DEF Phased, Untouched, BeforeThePage, AtWork
    <3> QED BY <3>1, <3>2 DEF OutcomeExplained
  <2> QED BY <1>2, <2>1, <2>2 DEF EngineStep
<1>3. CASE PluginStep
  <2>1. pc \in AtWork /\ UNCHANGED <<exc, verdict, audit>> /\ pc' # "ended"
    BY <1>3 DEF PluginStep, OpenForm, NextRound, FormOpen, StepDone, StepSkipped,
         PluginFails, AtWork
  <2> QED BY <2>1, <1>n, <1>w
<1>4. CASE ExitStep
  <2>1. CASE NoPlugin
    <3>1. verdict' = "failed" /\ pc' = "logging" /\ UNCHANGED <<exc, audit>> /\ pc = "start"
      BY <2>1 DEF NoPlugin
    <3>2. exc = "none" /\ audit = "none"
      BY <3>1, <1>n DEF AtWork, BeforeThePage
    <3> QED BY <3>1, <3>2 DEF OutcomeExplained
  <2>2. CASE CloseContext \/ CloseBrowser \/ StopDriver
    <3>0. pc \in {"closing", "stopping"} => pc' # "ended" \/ exc' = "raised"
      BY <2>2 DEF CloseContext, CloseBrowser, StopDriver
    <3>1. /\ exc' = exc \/ exc' = "raised"
          /\ pc' = "ended" => exc' # "none"
          /\ UNCHANGED <<filled, clicked, shots, verdict, audit, result>>
          /\ pc \in WayOut
      BY <2>2 DEF CloseContext, CloseBrowser, StopDriver, WayOut
    <3>2. verdict = "none" /\ audit = "none"
      BY <3>1, <1>h DEF Phased, NotOver
    <3> QED BY <3>1, <3>2 DEF OutcomeExplained
  <2>3. CASE Judge
    <3>1. /\ pc = "verdict" /\ pc' = "logging"
          /\ UNCHANGED <<filled, clicked, shots, exc, audit, result>>
          /\ verdict' = IF result[1] /\ result[2] THEN "pending_verification" ELSE "failed"
      BY <2>3 DEF Judge
    <3>2. exc = "none" /\ audit = "none" /\ shots = {"before", "after"}
      BY <3>1, <1>h DEF Phased, NotOver, Photographed, WayOut
    <3>3. verdict' = "pending_verification" => result = <<TRUE, TRUE>>
      <4>1. result \in {<<FALSE, FALSE>>, <<TRUE, FALSE>>, <<TRUE, TRUE>>}
        BY <1>h DEF Scripts
      <4>2. CASE result = <<FALSE, FALSE>>
        <5>1. ~result[1]
          BY <4>2
        <5> QED BY <5>1, <3>1
      <4>3. CASE result = <<TRUE, FALSE>>
        <5>1. ~result[2]
          BY <4>3
        <5> QED BY <5>1, <3>1
      <4> QED BY <4>1, <4>2, <4>3
    <3>4. result = <<TRUE, TRUE>> => Required(plugin) \subseteq filled
      BY <1>h DEF Scripts
    <3> QED BY <3>1, <3>2, <3>3, <3>4, <1>p DEF OutcomeExplained
  <2>4. CASE LogVerdict
    <3>1. verdict # "none" /\ exc = "none"
      BY <2>4, <1>h DEF LogVerdict, Phased, NotOver
    <3>2. /\ UNCHANGED <<filled, clicked, shots, verdict, result>>
          /\ exc' \in {exc, "raised"}
          /\ exc' # "raised" => audit' \in {"dry_run_success", "dry_run_failed"}
          /\ audit' = "dry_run_success" => verdict = "pending_verification" \/ audit' = audit
      BY <2>4 DEF LogVerdict
    <3> QED BY <3>1, <3>2, <1>p DEF OutcomeExplained
  <2> QED BY <1>4, <2>1, <2>2, <2>3, <2>4 DEF ExitStep
<1>5. CASE UNCHANGED vars
  BY <1>5, <1>p DEF vars, OutcomeExplained
<1> QED BY <1>1, <1>2, <1>3, <1>4, <1>5 DEF Next, Ended

\* A dry run that counts as a success filled every required field, found submit
\* enabled and left both screenshots; one that Celery repeats touched nothing; and
\* the audit entry says what the run returned.
THEOREM OutcomesAreEarned == Spec => []OutcomeExplained
<1>1. Init => OutcomeExplained
  <2> SUFFICES ASSUME Init PROVE OutcomeExplained
    OBVIOUS
  <2>1. pc = "start" /\ exc = "none" /\ verdict = "none" /\ audit = "none"
    BY DEF Init
  <2> QED BY <2>1 DEF OutcomeExplained
<1> QED BY <1>1, LedgerInvariant, OutcomeStep, PTL DEF Spec

(***************************************************************************)
(* What is open in each phase, unless closing something failed.            *)
(***************************************************************************)

OpenByPhase ==
  /\ pc \in {"start", "verdict", "logging"} => open = {}
  /\ pc \in {"launch", "driver"} => open \subseteq {"driver"}
  /\ pc = "ended" /\ ~botched => open = {}

LEMMA OpenStep == TypeInv /\ OpenByPhase /\ [Next]_vars => OpenByPhase'
<1> SUFFICES ASSUME TypeInv, OpenByPhase, [Next]_vars PROVE OpenByPhase'
  OBVIOUS
<1> USE DEF OpenByPhase, engineVars, pluginVars, endVars
<1>t. open \subseteq {"driver", "browser", "context"}
  BY DEF TypeInv, TypeOK
<1>1. CASE Render
  BY <1>1 DEF Render
<1>2. CASE EngineStep
  BY <1>2 DEF EngineStep, StartDriver, LaunchWorks, LaunchRetried, LaunchFails, OpenSession,
       GotoWorks, GotoRetried, GotoFails, Screenshot, ScreenshotFails
<1>3. CASE PluginStep
  <2>1. pc' \in {"opening", "filling", "after"}
    BY <1>3 DEF PluginStep, OpenForm, NextRound, FormOpen, StepDone, StepSkipped, PluginFails
  <2> QED BY <2>1
<1>4. CASE ExitStep
  <2>1. CASE NoPlugin \/ CloseContext \/ Judge \/ LogVerdict
    BY <2>1 DEF NoPlugin, CloseContext, Judge, LogVerdict
  <2>2. CASE CloseBrowser
    BY <2>2, <1>t DEF CloseBrowser
  <2>3. CASE StopDriver
    BY <2>3 DEF StopDriver
  <2> QED BY <1>4, <2>1, <2>2, <2>3 DEF ExitStep
<1>5. CASE UNCHANGED vars
  BY <1>5 DEF vars
<1> QED BY <1>1, <1>2, <1>3, <1>4, <1>5 DEF Next, Ended

\* Whichever step of the run fails, the two finally blocks of runner.py and
\* browser_engine.py leave no driver, browser or context behind.
THEOREM EverythingIsClosed == Spec => []NothingLeftRunning
<1>1. Init => OpenByPhase
  BY DEF Init, OpenByPhase
<1>2. OpenByPhase => NothingLeftRunning
  BY DEF OpenByPhase, NothingLeftRunning
<1>3. TypeInv /\ OpenByPhase /\ [Next]_vars => (TypeInv /\ OpenByPhase)'
  BY TypeStep, OpenStep
<1> QED BY <1>1, <1>2, <1>3, TypeInit, PTL DEF Spec

(***************************************************************************)
(* The submit control: no script clicks it, and among the ways into a form *)
(* it is found only by the word it reads.                                  *)
(***************************************************************************)

LEMMA NoScriptSubmits ==
  \A p \in Scripted : \A i \in DOMAIN Script[p] :
    Script[p][i].act = "click" => Script[p][i].what # "submit"
<1> DEFINE Harmless(script) == \A i \in DOMAIN script : script[i].act = "click" => script[i].what # "submit"
<1> USE DEF Need, Look, Try
<1>1. Harmless(GreenhouseScript)
  BY DEF GreenhouseScript
<1>2. Harmless(LeverScript)
  BY DEF LeverScript
<1>3. Harmless(WorkdayScript)
  BY DEF WorkdayScript
<1>4. Harmless(AshbyScript)
  BY DEF AshbyScript
<1>5. Harmless(SmartRecruitersScript)
  BY DEF SmartRecruitersScript
<1> HIDE DEF Harmless
<1>6. \A p \in Scripted : Harmless(Script[p])
  BY <1>1, <1>2, <1>3, <1>4, <1>5 DEF Script, Scripted
<1> QED BY <1>6 DEF Harmless

Searching == {"ashby", "smartrecruiters"}

\* The search for the form meets the submit control only as an "Apply" button.
LEMMA CandidatesApply ==
  ASSUME plugin \in Searching, "submit" \in Candidates
  PROVE  page.submit = "Apply"
<1> DEFINE sel == Entries[plugin]
           hit == {i \in DOMAIN sel : sel[i] \cap page.shown # {}}
<1>1. DOMAIN sel \subseteq 1..3 /\ \A i \in DOMAIN sel : "submit" \in sel[i] => page.submit = "Apply"
  <2>1. CASE plugin = "ashby"
    BY <2>1 DEF Entries, ApplyButtons
  <2>2. CASE plugin = "smartrecruiters"
    BY <2>2 DEF Entries, ApplyButtons
  <2> QED BY <2>1, <2>2 DEF Searching
<1>2. hit # {} /\ Candidates = sel[CHOOSE i \in hit : \A j \in hit : i <= j] \cap page.shown
  BY DEF Candidates
<1>3. hit \subseteq DOMAIN sel
  OBVIOUS
<1> HIDE DEF hit
<1>4. \E i \in hit : \A j \in hit : i <= j
  BY <1>1, <1>2, <1>3
<1>5. PICK i \in hit : Candidates = sel[i] \cap page.shown
  BY <1>2, <1>4
<1> QED BY <1>1, <1>3, <1>5

OnlyTheSearch == pc = "opening" => plugin \in Searching

\* A dry run clicks the submit control only where the search for the form takes
\* it for the way in, whatever the page paints and whenever.
THEOREM SubmitOnlyMistaken == Spec => []NeverSubmits
<1> DEFINE Safe == OnlyTheSearch /\ NeverSubmits
<1>1. Init => Safe
  BY DEF Init, OnlyTheSearch, NeverSubmits
<1>2. TypeInv /\ Safe /\ [Next]_vars => Safe'
  <2> SUFFICES ASSUME TypeInv, Safe, [Next]_vars PROVE Safe'
    OBVIOUS
  <2> USE DEF engineVars, pluginVars, endVars
  <2>p. plugin' = plugin
    BY SameUrl
  <2>k. ASSUME clicked' = clicked, page'.submit = page.submit, pc' = "opening" => pc = "opening"
        PROVE  Safe'
    BY <2>k, <2>p DEF OnlyTheSearch, NeverSubmits
  <2>c. ASSUME NEW c, Click(c)
        PROVE  page'.submit = page.submit /\ clicked' = clicked \cup {c}
    BY <2>c DEF Click, TypeInv, PageShape
  <2>1. CASE Render
    <3>1. page'.submit = page.submit /\ clicked' = clicked /\ pc' = pc
      BY <2>1 DEF Render, TypeInv, PageShape
    <3> QED BY <2>k, <3>1
  <2>2. CASE EngineStep
    <3>1. CASE Screenshot
      <4>1. clicked' = clicked /\ page' = page /\ (pc' = "opening" => plugin \in Searching)
        BY <3>1 DEF Screenshot, Entries, Searching
      <4> QED BY <2>p, <4>1 DEF OnlyTheSearch, NeverSubmits
    <3>2. CASE ~Screenshot
      <4>1. clicked' = clicked /\ page' = page /\ pc' # "opening"
        BY <2>2, <3>2 DEF EngineStep, StartDriver, LaunchWorks, LaunchRetried, LaunchFails,
           OpenSession, GotoWorks, GotoRetried, GotoFails, ScreenshotFails
      <4> QED BY <2>k, <4>1
    <3> QED BY <3>1, <3>2
  <2>3. CASE OpenForm
    <3>1. pc = "opening" /\ plugin \in Searching
      BY <2>3 DEF OpenForm, OnlyTheSearch
    <3>2. CASE UNCHANGED <<page, clicked>>
      BY <2>k, <3>1, <3>2
    <3>3. ASSUME NEW c \in Candidates, Click(c) PROVE Safe'
      <4>1. page'.submit = page.submit /\ clicked' = clicked \cup {c}
        BY <2>c, <3>3
      <4>2. c = "submit" => page.submit = "Apply"
        BY <3>1, <3>3, CandidatesApply
      <4> QED BY <2>p, <3>1, <4>1, <4>2 DEF OnlyTheSearch, NeverSubmits, Searching
    <3> QED BY <2>3, <3>2, <3>3 DEF OpenForm
  <2>4. CASE StepDone
    <3>1. pc = "filling" /\ pc' # "opening" /\ plugin \in Scripted /\ step \in DOMAIN Script[plugin]
      BY <2>4, PluginKnown DEF StepDone, TypeInv, TypeOK
    <3>2. CASE UNCHANGED <<page, clicked>>
      BY <2>k, <3>1, <3>2
    <3>3. CASE Current.act = "click" /\ Click(Current.what)
      <4>1. Current.what # "submit"
        BY <3>1, <3>3, NoScriptSubmits DEF Current
      <4>2. page'.submit = page.submit /\ clicked' = clicked \cup {Current.what}
        BY <2>c, <3>3
      <4> QED BY <2>p, <3>1, <4>1, <4>2 DEF OnlyTheSearch, NeverSubmits
    <3> QED BY <2>4, <3>2, <3>3 DEF StepDone
  <2>5. CASE FormOpen \/ StepSkipped \/ PluginFails
    BY <2>k, <2>5 DEF FormOpen, StepSkipped, PluginFails
  <2>6. CASE ExitStep
    <3>1. clicked' = clicked /\ page' = page /\ pc' # "opening"
      BY <2>6 DEF ExitStep, NoPlugin, CloseContext, CloseBrowser, StopDriver, Judge, LogVerdict
    <3> QED BY <2>k, <3>1
  <2>7. CASE UNCHANGED vars
    BY <2>k, <2>7 DEF vars
  <2> QED BY <2>1, <2>2, <2>3, <2>4, <2>5, <2>6, <2>7 DEF Next, PluginStep, Ended
<1>3. Safe => NeverSubmits
  OBVIOUS
<1> HIDE DEF Safe
<1> QED BY <1>1, <1>2, <1>3, TypeInit, TypeStep, PTL DEF Spec

(***************************************************************************)
(* The contract with the task: every step of the run is a step of          *)
(* DryRunContract, or changes nothing that the task can see.               *)
(***************************************************************************)

Touched == filled # {} \/ clicked # {} \/ shots # {}

EndOf ==
  IF pc # "ended" THEN "running"
  ELSE IF exc # "none" THEN exc
  ELSE IF verdict = "pending_verification" THEN "success" ELSE "failed"

\* A step in the middle of a run touches something more, or is not seen at all.
LEMMA MidRun ==
  ASSUME pc # "ended", pc' # "ended", audit' = audit,
         filled \subseteq filled', clicked \subseteq clicked', shots \subseteq shots'
  PROVE  [Contract!Next]_(Contract!vars)
<1>1. EndOf = "running" /\ EndOf' = "running" /\ (Touched => Touched')
  BY DEF EndOf, Touched
<1>2. CASE Touched <=> Touched'
  <2>1. UNCHANGED Contract!vars
    BY <1>1, <1>2 DEF Contract!vars, EndOf, Touched
  <2> QED BY <2>1
<1>3. CASE ~Touched /\ Touched'
  <2>1. Contract!Touch
    BY <1>1, <1>3 DEF Contract!Touch, EndOf, Touched
  <2> QED BY <2>1 DEF Contract!Next
<1> QED BY <1>1, <1>2, <1>3

\* An exception ends a run; only one that touched nothing is worth repeating.
LEMMA Thrown ==
  ASSUME pc # "ended", pc' = "ended", UNCHANGED <<filled, clicked, shots, audit>>,
         exc' = "raised" \/ (exc' = "transient" /\ ~Touched)
  PROVE  Contract!Next
<1>1. EndOf = "running" /\ EndOf' = exc' /\ (Touched' <=> Touched)
  BY DEF EndOf, Touched
<1>2. CASE exc' = "raised"
  <2>1. Contract!Raise
    BY <1>1, <1>2 DEF Contract!Raise, EndOf, Touched
  <2> QED BY <2>1 DEF Contract!Next
<1>3. CASE exc' = "transient" /\ ~Touched
  <2>1. Contract!BreakOff
    BY <1>1, <1>3 DEF Contract!BreakOff, EndOf, Touched
  <2> QED BY <2>1 DEF Contract!Next
<1> QED BY <1>2, <1>3

LEMMA ContractStep ==
  Ledger /\ OutcomeExplained /\ [Next]_vars => [Contract!Next]_(Contract!vars)
<1> SUFFICES ASSUME Ledger, OutcomeExplained, [Next]_vars
             PROVE  [Contract!Next]_(Contract!vars)
  OBVIOUS
<1> USE DEF engineVars, pluginVars, endVars
<1>h. TypeInv /\ Phased
  BY DEF Ledger
<1>1. CASE Render
  BY <1>1, MidRun DEF Render
<1>2. CASE EngineStep
  <2>1. CASE pc' # "ended"
    <3>1. pc # "ended" /\ audit' = audit /\ UNCHANGED <<filled, clicked>> /\ shots \subseteq shots'
      BY <1>2 DEF EngineStep, StartDriver, LaunchWorks, LaunchRetried, LaunchFails, OpenSession,
         GotoWorks, GotoRetried, GotoFails, Screenshot, ScreenshotFails
    <3> QED BY <2>1, <3>1, MidRun
  <2>2. CASE pc' = "ended"
    <3>1. /\ pc \in {"start", "launch"} /\ UNCHANGED <<filled, clicked, shots, audit>>
          /\ exc' \in {"raised", "transient"}
      BY <1>2, <2>2 DEF EngineStep, StartDriver, LaunchWorks, LaunchRetried, LaunchFails,
         OpenSession, GotoWorks, GotoRetried, GotoFails, Screenshot, ScreenshotFails
    <3>2. ~Touched
      BY <3>1, <1>h DEF Phased, Untouched, BeforeThePage, Touched
    <3> QED BY <2>2, <3>1, <3>2, Thrown
  <2> QED BY <2>1, <2>2
<1>3. CASE PluginStep
  <2>1. CASE OpenForm
    <3>1. pc = "opening" /\ pc' \in {"opening", "filling"} /\ UNCHANGED <<filled, shots, audit>>
          /\ clicked \subseteq clicked'
      BY <2>1 DEF OpenForm, NextRound, Click
    <3> QED BY <3>1, MidRun
  <2>2. CASE FormOpen \/ StepSkipped \/ PluginFails
    <3>1. pc \in {"opening", "filling"} /\ pc' \in {"filling", "after"}
          /\ UNCHANGED <<filled, clicked, shots, audit>>
      BY <2>2 DEF FormOpen, StepSkipped, PluginFails
    <3> QED BY <3>1, MidRun
  <2>3. CASE StepDone
    <3>1. pc = "filling" /\ pc' \in {"filling", "after"} /\ UNCHANGED <<shots, audit>>
          /\ filled \subseteq filled' /\ clicked \subseteq clicked'
      BY <2>3 DEF StepDone, Click
    <3> QED BY <3>1, MidRun
  <2> QED BY <1>3, <2>1, <2>2, <2>3 DEF PluginStep
<1>4. CASE ExitStep
  <2>1. CASE NoPlugin \/ CloseContext \/ Judge
    <3>1. pc \in {"start", "closing", "verdict"} /\ pc' \in {"logging", "stopping"}
          /\ UNCHANGED <<filled, clicked, shots, audit>>
      BY <2>1 DEF NoPlugin, CloseContext, Judge
    <3> QED BY <3>1, MidRun
  <2>2. CASE CloseBrowser \/ StopDriver
    <3>1. /\ pc \in {"stopping", "driver"} /\ UNCHANGED <<filled, clicked, shots, audit>>
          /\ pc' = "ended" => exc' = "raised" \/ (exc' = exc /\ exc # "none")
      BY <2>2 DEF CloseBrowser, StopDriver
    <3>2. exc \in {"none", "transient", "raised"} /\ (exc = "transient" => ~Touched)
      BY <1>h DEF TypeInv, TypeOK, OutcomeExplained, Touched
    <3>3. CASE pc' # "ended"
      BY <3>1, <3>3, MidRun
    <3>4. CASE pc' = "ended"
      BY <3>1, <3>2, <3>4, Thrown
    <3> QED BY <3>3, <3>4
  <2>3. CASE LogVerdict
    <3>1. pc = "logging" /\ pc' = "ended" /\ UNCHANGED <<filled, clicked, shots, verdict>>
      BY <2>3 DEF LogVerdict
    <3>2. verdict \in {"pending_verification", "failed"} /\ exc = "none" /\ audit = "none"
      BY <3>1, <1>h DEF TypeInv, TypeOK, Phased, NotOver
    <3>3. CASE exc' = "raised" /\ UNCHANGED audit
      BY <3>1, <3>3, Thrown
    <3>4. CASE UNCHANGED exc /\ audit' = IF verdict = "pending_verification"
                                         THEN "dry_run_success" ELSE "dry_run_failed"
      <4>1. EndOf = "running" /\ (Touched' <=> Touched)
            /\ EndOf' = IF verdict = "pending_verification" THEN "success" ELSE "failed"
        BY <3>1, <3>2, <3>4 DEF EndOf, Touched
      <4>2. CASE verdict = "pending_verification"
        <5>1. Touched
          BY <4>2 DEF OutcomeExplained, Touched
        <5>2. Contract!Succeed
          BY <3>4, <4>1, <4>2, <5>1 DEF Contract!Succeed, EndOf, Touched
        <5> QED BY <5>2 DEF Contract!Next
      <4>3. CASE verdict = "failed"
        <5>1. Contract!Fail
          BY <3>4, <4>1, <4>3 DEF Contract!Fail, EndOf, Touched
        <5> QED BY <5>1 DEF Contract!Next
      <4> QED BY <3>2, <4>2, <4>3
    <3> QED BY <2>3, <3>3, <3>4 DEF LogVerdict
  <2> QED BY <1>4, <2>1, <2>2, <2>3 DEF ExitStep
<1>5. CASE UNCHANGED vars
  BY <1>5 DEF vars, Contract!vars
<1> QED BY <1>1, <1>2, <1>3, <1>4, <1>5 DEF Next, Ended

\* Seen from the task, runner.py's dry_run with its engine, plugins, retries and two
\* finally blocks is DryRunContract: it succeeds, fails, breaks off untouched or
\* raises, and leaves the audit entry that goes with that.
THEOREM DryRunKeepsItsContract == Spec => ContractSpec
<1>1. Init => Contract!Init
  <2> SUFFICES ASSUME Init PROVE Contract!Init
    OBVIOUS
  <2>1. pc = "start" /\ filled = {} /\ clicked = {} /\ shots = {} /\ audit = "none"
    BY DEF Init
  <2> QED BY <2>1 DEF Contract!Init
<1> QED BY <1>1, ContractStep, LedgerInvariant, OutcomesAreEarned, PTL
        DEF Spec, ContractSpec, Contract!Spec

\* So a run that is over has one of the agreed ends, with its audit entry, and one that
\* is not has nothing on record.
THEOREM EndsAreAgreed == Spec => []Contract!EndsAsAgreed
<1>1. Contract!Init => Contract!EndsAsAgreed
  BY DEF Contract!Init, Contract!EndsAsAgreed
<1>2. Contract!EndsAsAgreed /\ [Contract!Next]_(Contract!vars) => Contract!EndsAsAgreed'
  BY DEF Contract!EndsAsAgreed, Contract!Agreed, Contract!vars, Contract!Next, Contract!Touch,
     Contract!Succeed, Contract!Fail, Contract!BreakOff, Contract!Raise
<1> QED BY <1>1, <1>2, DryRunKeepsItsContract, PTL DEF ContractSpec, Contract!Spec
===============================================================================
