------------------------------- MODULE Context -------------------------------
(***************************************************************************)
(* What the user sees and decides: Handoff, TimeEvents, Now, OneCommand,   *)
(* ShareIntake, FieldReads and PraxionClient.  They share no row, so this  *)
(* is their sum: the initial state picks the component that moves and the  *)
(* others stay as they start.                                              *)
(***************************************************************************)
EXTENDS Integers, FiniteSets

CONSTANTS
  Device, MaxKills, None,
  Version, MaxChanges, MaxUser, MaxSyncKills,
  Instants, Starts, Importances, Zones, MaxDecisions,
  Person, Thread, Document, Transaction, Mails, NameOf, Fit, MAIL_ATTACHMENT_SCAN,
  MaxWrites, MaxCommands,
  Shares, Files, MaxFailures, MaxMounts,
  Hooks, Watched, Subject, MaxRevision, MaxCalls, MaxMoves, MaxLoads,
  Caller, Contracts, clientVersion, CacheTime, ProbeTimeout, RequestTimeout, Interval,
  MaxTicks, MaxSwitches, Broken

VARIABLES
  component,
  handoff, prompt, creating, expired, call, asked, told, kills,
  provider, events, sync, user, spent, dropped, applied, overlap, changes, acts, syncKills,
  clock, event, threaded, settled, said, decisions,
  edges, from, counterparty, mergedInto, batch, location, command, answer, writes, commands,
  inbox, cached, drain, wiping, submitted, shared, late, mounts, failures,
  hook, rows, channel, news, online, calls, version, focus, query, loads, heard, dispatched,
  moves,
  running, tick, held, cache, inFlight, request, mark, polling, nextPoll, switches

H == INSTANCE Handoff
T == INSTANCE TimeEvents WITH MaxKills <- MaxSyncKills, kills <- syncKills
N == INSTANCE Now
O == INSTANCE OneCommand
I == INSTANCE ShareIntake
R == INSTANCE FieldReads
P == INSTANCE PraxionClient

\* What the constants of the components must be.
ASSUME ContextAssumption ==
  /\ H!HandoffAssumption /\ T!TimeEventsAssumption /\ N!NowAssumption
  /\ O!CommandAssumption /\ I!ShareAssumption
  /\ R!ReadsAssumption /\ P!PraxionAssumption

handoffVars == <<handoff, prompt, creating, expired, call, asked, told, kills>>
timeVars ==
  <<provider, events, sync, user, spent, dropped, applied, overlap, changes, acts, syncKills>>
nowVars == <<clock, event, threaded, settled, said, decisions>>
commandVars == <<edges, from, counterparty, mergedInto, batch, location, command, answer,
                 writes, commands>>
shareVars == <<inbox, cached, drain, wiping, submitted, shared, late, mounts, failures>>
readVars == <<hook, rows, channel, news, online, calls, version, focus, query, loads, heard,
              dispatched, moves>>
praxionVars == <<running, tick, held, cache, inFlight, request, mark, polling, nextPoll,
                 switches>>
vars == <<component, handoffVars, timeVars, nowVars, commandVars, shareVars, readVars,
          praxionVars>>

Init ==
  /\ component \in {"handoff", "time", "now", "command", "share", "reads", "praxion"}
  /\ H!Init /\ T!Init /\ N!Init /\ O!Init /\ I!Init /\ R!Init /\ P!Init
  /\ component # "time" => provider = CHOOSE v \in Version : TRUE
  /\ component # "now" => event = N!Row(30, "needs_attention", 0) /\ ~threaded
  /\ component # "reads" =>
       hook = (CHOOSE h \in Hooks : TRUE) /\ focus = (CHOOSE f \in Subject : TRUE) /\ calls = {}
  /\ component # "praxion" => running = None

Next ==
  \/ /\ component = "handoff" /\ H!Next
     /\ UNCHANGED <<component, timeVars, nowVars, commandVars, shareVars,
                    readVars, praxionVars>>
  \/ /\ component = "time" /\ T!Next
     /\ UNCHANGED <<component, handoffVars, nowVars, commandVars, shareVars,
                    readVars, praxionVars>>
  \/ /\ component = "now" /\ N!Next
     /\ UNCHANGED <<component, handoffVars, timeVars, commandVars, shareVars,
                    readVars, praxionVars>>
  \/ /\ component = "command" /\ O!Next
     /\ UNCHANGED <<component, handoffVars, timeVars, nowVars, shareVars,
                    readVars, praxionVars>>
  \/ /\ component = "share" /\ I!Next
     /\ UNCHANGED <<component, handoffVars, timeVars, nowVars, commandVars,
                    readVars, praxionVars>>
  \/ /\ component = "reads" /\ R!Next
     /\ UNCHANGED <<component, handoffVars, timeVars, nowVars, commandVars,
                    shareVars, praxionVars>>
  \/ /\ component = "praxion" /\ P!Next
     /\ UNCHANGED <<component, handoffVars, timeVars, nowVars, commandVars,
                    shareVars, readVars>>

Spec == Init /\ [][Next]_vars

-----------------------------------------------------------------------------
\* A device that asks after another was told it has the handoff is refused.
TooLateIsRefused == H!TooLateIsRefused

\* The prompt leaves NOW with the accept that found it there.
PromptResolved == H!PromptResolved

\* A rescheduled meeting is shown once, in its latest version.
OneVersionShown == T!OneVersionShown

\* What the user dismissed no sync brings back.
DismissalRespected == T!DismissalRespected

\* A decision that was carried out holds in NOW until the next one.
DecisionsHold == N!DecisionsHold

\* What falls due does not leave NOW's lists by ageing.
DebtsDoNotFade == N!DebtsDoNotFade

\* Merging two people loses none of what One Command answers about them.
MergeKeepsAnswers == O!MergeKeepsAnswers

\* A command in a focus is answered about what is in focus.
FocusAnswers == O!FocusAnswers

\* A share is in the plugin's queue, on its way, or submitted.
SharesKept == I!SharesKept

\* What a page shows of a table never goes back to an earlier revision.
NeverBack == R!NeverBack

\* A page at rest shows every change the Field was told of.
ShowsWhatItHeard == R!ShowsWhatItHeard

\* What is said of Praxion was so not long before.
SaidIsFresh == P!SaidIsFresh
=============================================================================
