---------------------------- MODULE MCBackground ----------------------------
(***************************************************************************)
(* The loops that work in the background on what they find: the plugin     *)
(* queue, the legacy crawler engine, the events of aria2, and the start of *)
(* the processes they live in. The parts share no variable; `part` names   *)
(* the one that moves. The plugin queue appears twice: with two loops that *)
(* crash and one asynchronous task for safety, and with one loop and a     *)
(* task of either kind for liveness.                                       *)
(***************************************************************************)
EXTENDS PluginQueue

CONSTANTS Parts,
          LegacyEntries, LegacyWorkers, NoEntry,
          QueueCap, MaxTaskErrorNum, RestartCap,  \* of LegacyCrawler
          EventCap, MoveFailCap,                  \* of Aria2Delivery
          Releases, Nobody, Needs, Services,
          BootCap                                 \* of Startup

VARIABLES part,
          queue, bus, crawlers, timers, errors, rows, lost, restarts,
          downloads, row, submitter, heard, events, handling, failures,
          migrates, effect, lock, process, services, stops

pluginVars == vars
legacyVars == <<queue, bus, crawlers, timers, errors, rows, lost, restarts>>
aria2Vars == <<downloads, row, submitter, heard, events, handling, failures>>
startupVars == <<migrates, effect, lock, process, services, stops>>

backgroundVars == <<part, pluginVars, legacyVars, aria2Vars, startupVars>>

PluginLive == INSTANCE PluginQueue WITH JobCap <- 1, MayCrash <- FALSE

Legacy == INSTANCE LegacyCrawler WITH
    Entries <- LegacyEntries, Workers <- LegacyWorkers, workers <- crawlers

Aria2 == INSTANCE Aria2Delivery

(* A process per release; of two releases, the newer has a migration more. *)
Starting == INSTANCE Startup WITH Processes <- Releases

OneMigrationMore == [old |-> 1, new |-> 2]

ASSUME PluginAssumed == QueueAssumption /\ PluginLive!QueueAssumption
ASSUME LegacyAssumed == Legacy!CrawlerAssumption
ASSUME Aria2Assumed == Aria2!Aria2Assumption
ASSUME StartupAssumed == Starting!StartupAssumption

-----------------------------------------------------------------------------
BackgroundInit == part \in Parts /\ Init /\ Legacy!Init /\ Aria2!Init /\ Starting!Init

In(p) ==
    /\ part = p /\ UNCHANGED part
    /\ IF p \in {"plugin", "pluginLive"} THEN TRUE ELSE UNCHANGED pluginVars
    /\ IF p = "legacy" THEN TRUE ELSE UNCHANGED legacyVars
    /\ IF p = "aria2" THEN TRUE ELSE UNCHANGED aria2Vars
    /\ IF p = "startup" THEN TRUE ELSE UNCHANGED startupVars

PluginStep ==
    \/ In("plugin") /\ Enqueue("cloud")
    \/ In("plugin") /\ Cancel("cloud")
    \/ In("plugin") /\ Retry("cloud")
    \/ In("plugin") /\ LeaseExpires("cloud")
    \/ In("plugin") /\ DelayPasses("cloud")
    \/ In("plugin") /\ \E j \in 1..2 : JobEnds("cloud", j)
    \/ \E l \in Workers :
        \/ In("plugin") /\ Claim(l, "cloud")
        \/ In("plugin") /\ Poll(l)
        \/ In("plugin") /\ Handle(l)
        \/ In("plugin") /\ \E retryable \in BOOLEAN : HandleFails(l, retryable)
        \/ In("plugin") /\ OnComplete(l)
        \/ In("plugin") /\ SchedulePoll(l)
        \/ In("plugin") /\ Complete(l)
        \/ In("plugin") /\ FailRead(l)
        \/ In("plugin") /\ FailRequeue(l)
        \/ In("plugin") /\ FailBump(l)
        \/ In("plugin") /\ FailClose(l)
        \/ In("plugin") /\ WorkerCrash(l)

(* One loop, and no crash.                                                 *)
PluginLiveStep ==
    \/ \E t \in Tasks :
        \/ In("pluginLive") /\ PluginLive!Enqueue(t)
        \/ In("pluginLive") /\ PluginLive!Cancel(t)
        \/ In("pluginLive") /\ PluginLive!Retry(t)
        \/ In("pluginLive") /\ PluginLive!LeaseExpires(t)
        \/ In("pluginLive") /\ PluginLive!DelayPasses(t)
        \/ In("pluginLive") /\ PluginLive!JobEnds(t, 1)
        \/ In("pluginLive") /\ PluginLive!Claim("l1", t)
    \/ In("pluginLive") /\ PluginLive!Process("l1")

LegacyStep ==
    \/ In("legacy") /\ Legacy!Submit
    \/ In("legacy") /\ Legacy!Restart
    \/ \E e \in LegacyEntries :
        \/ In("legacy") /\ Legacy!Publish(e)
        \/ In("legacy") /\ Legacy!TimerFires(e)
        \/ In("legacy") /\ Legacy!RetryDue(e)
        \/ In("legacy") /\ Legacy!LeaseExpires(e)
        \/ In("legacy") /\ Legacy!OperatorRetries(e)
    \/ \E w \in LegacyWorkers :
        \/ In("legacy") /\ Legacy!Take(w)
        \/ In("legacy") /\ Legacy!Discard(w)
        \/ In("legacy") /\ \E children \in SUBSET LegacyEntries : Legacy!Handled(w, children)
        \/ In("legacy") /\ \E e \in LegacyEntries : Legacy!PersistChild(w, e)
        \/ In("legacy") /\ Legacy!SubmitChild(w)
        \/ In("legacy") /\ Legacy!Succeed(w)
        \/ In("legacy") /\ Legacy!Fail(w)
        \/ In("legacy") /\ Legacy!Resubmit(w)

Aria2Step ==
    \/ In("aria2") /\ Aria2!AddURI
    \/ In("aria2") /\ Aria2!MarkSubmitted
    \/ In("aria2") /\ Aria2!HandleMetadata
    \/ In("aria2") /\ Aria2!IgnoreContent
    \/ In("aria2") /\ Aria2!MoveFiles
    \/ In("aria2") /\ Aria2!MarkPostProcessDone
    \/ In("aria2") /\ Aria2!MarkCompleted
    \/ \E g \in Aria2!Gids :
        \/ In("aria2") /\ \E state \in {"complete", "error"} : Aria2!Stops(g, state)
        \/ In("aria2") /\ Aria2!HandleEvent(g)
        \/ In("aria2") /\ Aria2!TriggerComplete(g)
        \/ In("aria2") /\ Aria2!ProcessStopped(g)
        \/ In("aria2") /\ Aria2!HandleError(g)

StartupStep == \E p \in Releases :
    \/ In("startup") /\ Starting!Boot(p)
    \/ In("startup") /\ Starting!Dies(p)
    \/ In("startup") /\ Starting!Lock(p)
    \/ In("startup") /\ Starting!Check(p)
    \/ In("startup") /\ Starting!Exec(p)
    \/ In("startup") /\ Starting!Record(p)
    \/ In("startup") /\ Starting!Launch(p)
    \/ In("startup") /\ Starting!Signal(p)
    \/ In("startup") /\ Starting!Shutdown(p)
    \/ In("startup") /\ Starting!Exit(p)
    \/ \E s \in Services :
        \/ In("startup") /\ Starting!Started(p, s)
        \/ In("startup") /\ Starting!StopBegin(p, s)
        \/ In("startup") /\ Starting!LoopEnds(p, s)
        \/ In("startup") /\ Starting!StopEnd(p, s)

BackgroundNext == PluginStep \/ PluginLiveStep \/ LegacyStep \/ Aria2Step \/ StartupStep

(* The fairness of PluginQueue and of Aria2Delivery, in their parts.       *)
PluginFairness ==
    /\ WF_backgroundVars(In("pluginLive") /\ PluginLive!Process("l1"))
    /\ \A t \in Tasks :
        /\ SF_backgroundVars(In("pluginLive") /\ PluginLive!Claim("l1", t))
        /\ WF_backgroundVars(In("pluginLive") /\ PluginLive!LeaseExpires(t))
        /\ WF_backgroundVars(In("pluginLive") /\ PluginLive!DelayPasses(t))
        /\ WF_backgroundVars(In("pluginLive") /\ PluginLive!JobEnds(t, 1))

Aria2Fairness ==
    /\ WF_backgroundVars(In("aria2") /\ Aria2!MarkSubmitted)
    /\ WF_backgroundVars(In("aria2") /\ Aria2!Handles)
    /\ WF_backgroundVars(In("aria2") /\ Aria2!MarkPostProcessDone)
    /\ WF_backgroundVars(In("aria2") /\ Aria2!MarkCompleted)
    /\ SF_backgroundVars(In("aria2") /\ \E g \in Aria2!Gids : Aria2!TriggerComplete(g))

BackgroundSpec == BackgroundInit /\ [][BackgroundNext]_backgroundVars /\ PluginFairness /\ Aria2Fairness

-----------------------------------------------------------------------------
(* See PluginQueue: every task settles.                                    *)
LiveTaskSettles == part = "pluginLive" => PluginLive!TaskSettles

(* See LegacyCrawler: an entry is in memory once, and its channel within   *)
(* its capacity; a row that waits is held.                                 *)
HeldOnce == Legacy!TypeOK /\ Legacy!HeldOnce
WaitingIsHeld == Legacy!WaitingIsHeld

(* See Aria2Delivery: what aria2 finished ends as completed, and its       *)
(* channel stays within its capacity.                                      *)
FinishedIsCompleted == []Aria2!TypeOK /\ Aria2!FinishedIsCompleted

(* See Startup: processes of both releases migrate one schema in order.    *)
MigratesInOrder == []Starting!TypeOK /\ Starting!MigratesInOrder
=============================================================================
