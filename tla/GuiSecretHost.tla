---------------------------- MODULE GuiSecretHost ----------------------------
(***************************************************************************)
(* The secure prompts of the callback GUI                                  *)
(* (crates/ricochet_cli/src/commands/gui.rs, secure_action.rs,             *)
(* secure_prompt/mod.rs).                                                  *)
(*                                                                         *)
(* A page offers secure actions; taking one opens a native prompt whose    *)
(* answer is bound to a slot of the secret session.  Every event starts a  *)
(* new document generation, and an action is usable only on the page it    *)
(* was issued for.  The GUI thread handles one event at a time, but the    *)
(* bridge is shared with the background tasks of the VM, which issue       *)
(* actions at any time: they read the closed flag, then the generation,    *)
(* and only then take the mutex of the action registry.  Issuing from the  *)
(* callback itself is the case of a task that the GUI thread waits for.    *)
(***************************************************************************)
EXTENDS Integers, Sequences, FiniteSets

CONSTANTS
    Issuers,       \* VM threads that issue secure actions
    MaxActions,    \* bound: actions that are ever issued
    MaxDocuments,  \* bound: document generations
    MaxPerDocument \* MAX_ACTIONS_PER_DOCUMENT

ASSUME GuiAssumption ==
    /\ IsFiniteSet(Issuers)
    /\ {MaxActions, MaxPerDocument} \subseteq Nat
    /\ MaxDocuments \in Nat \ {0}

VARIABLES
    documentGeneration, bridgeClosed, \* GuiSecretSessionBridge
    actions,                          \* the entries of its SecretActionRegistry
    actionsIssued,                    \* tokens drawn so far
    issuing,                          \* each issuer: its step and the generation it read
    gui,                              \* the GUI thread: its step and the action it works on
    tickets,                          \* next_prompt_ticket, and the coordinator's state
    slotOpen,                         \* the session accepts bindings
    takes, binds                      \* history: per action, the page it was issued for and the
                                      \* one it was taken on, for every take; actions bound

guiVars == <<documentGeneration, bridgeClosed, actions, actionsIssued, issuing, gui, tickets,
             slotOpen, takes, binds>>

ActionIds == 1 .. MaxActions
Entry(id, gen, old) == [id |-> id, gen |-> gen, old |-> old]
NoIssue == [step |-> "idle", gen |-> 0]
IdleGui == [step |-> "idle", action |-> 0, previous |-> 0]
GuiSteps == {"idle", "prompt", "prompting", "bind", "advance", "store", "callback",
             "close_actions", "close_session"}

GuiInit ==
    /\ documentGeneration = 1 /\ bridgeClosed = FALSE
    /\ actions = {} /\ actionsIssued = 0
    /\ issuing = [i \in Issuers |-> NoIssue]
    /\ gui = IdleGui
    /\ tickets = [session |-> 1, next |-> 1, active |-> FALSE]
    /\ slotOpen = TRUE
    /\ takes = [id \in ActionIds |-> << >>]
    /\ binds = {}

bridgeState == <<documentGeneration, bridgeClosed>>
registryState == <<actions, actionsIssued>>
guiHistory == <<takes, binds>>

-----------------------------------------------------------------------------
(* issue_action, on any thread *)

CheckOpen(i) ==
    /\ issuing[i].step = "idle"
    /\ ~bridgeClosed
    /\ issuing' = [issuing EXCEPT ![i].step = "open"]
    /\ UNCHANGED <<bridgeState, registryState, gui, tickets, slotOpen, guiHistory>>

ReadGeneration(i) ==
    /\ issuing[i].step = "open"
    /\ issuing' = [issuing EXCEPT ![i] = [step |-> "issue", gen |-> documentGeneration]]
    /\ UNCHANGED <<bridgeState, registryState, gui, tickets, slotOpen, guiHistory>>

(* SecretActionRegistry::issue: expired entries go, and the document may   *)
(* be at its limit; the token is new.                                      *)
IssueAction(i) ==
    LET live == {e \in actions : ~e.old}
    IN /\ issuing[i].step = "issue"
       /\ IF Cardinality({e \in live : e.gen = issuing[i].gen}) >= MaxPerDocument
          THEN actions' = live /\ UNCHANGED actionsIssued
          ELSE /\ actionsIssued + 1 \in ActionIds
               /\ actionsIssued' = actionsIssued + 1
               /\ actions' = live \cup {Entry(actionsIssued + 1, issuing[i].gen, FALSE)}
       /\ issuing' = [issuing EXCEPT ![i] = NoIssue]
       /\ UNCHANGED <<bridgeState, gui, tickets, slotOpen, guiHistory>>

(* ACTION_LIFETIME passes for an entry.                                    *)
ActionAges(e) ==
    /\ ~e.old
    /\ actions' = (actions \ {e}) \cup {[e EXCEPT !.old = TRUE]}
    /\ UNCHANGED <<bridgeState, actionsIssued, issuing, gui, tickets, slotOpen, guiHistory>>

-----------------------------------------------------------------------------
(* the GUI thread *)

GuiAt(step) == gui.step = step
GuiGoTo(step) == gui' = [gui EXCEPT !.step = step]

(* dispatch_event_json: an ordinary event begins with the new generation   *)
OrdinaryEvent ==
    /\ GuiAt("idle")
    /\ GuiGoTo("advance")
    /\ UNCHANGED <<bridgeState, registryState, issuing, tickets, slotOpen, guiHistory>>

(* Mutant: an action of another page is taken too.                         *)
AnyGeneration(e) == ~e.old

(* SecretActionRegistry::take admits the entries of the generation that    *)
(* have not expired.                                                       *)
Takeable(e) == e.gen = documentGeneration /\ ~e.old

(* dispatch_secure_event, take_action: the page may send any id, also of a *)
(* page that is gone.  A take that finds an expired entry removes it.      *)
TakeAction(e) ==
    /\ GuiAt("idle") /\ ~bridgeClosed
    /\ Takeable(e)
    /\ actions' = actions \ {e}
    /\ takes' = [takes EXCEPT ![e.id] = Append(@, <<e.gen, documentGeneration>>)]
    /\ gui' = [gui EXCEPT !.step = "prompt", !.action = e.id]
    /\ tickets' = [tickets EXCEPT !.session = @ + 1]
    /\ UNCHANGED <<bridgeState, actionsIssued, issuing, slotOpen, binds>>

TakeExpired(e) ==
    /\ GuiAt("idle") /\ ~bridgeClosed
    /\ e.gen = documentGeneration /\ e.old
    /\ actions' = actions \ {e}
    /\ UNCHANGED <<bridgeState, actionsIssued, issuing, gui, tickets, slotOpen, guiHistory>>

(* HostPromptCoordinator::prompt waits until it is the ticket's turn ...   *)
BeginPrompt ==
    /\ GuiAt("prompt")
    /\ ~tickets.active /\ tickets.session - 1 = tickets.next
    /\ tickets' = [tickets EXCEPT !.active = TRUE]
    /\ GuiGoTo("prompting")
    /\ UNCHANGED <<bridgeState, registryState, issuing, slotOpen, guiHistory>>

(* Mutant: a prompt that fails keeps its turn.                             *)
TurnKept(ok) == [tickets EXCEPT !.active = FALSE, !.next = IF ok THEN @ + 1 ELSE @]

(* ... and hands the turn on, whatever the outcome.                        *)
TurnOver(ok) == [tickets EXCEPT !.active = FALSE, !.next = @ + 1]

EndPrompt(stored) ==
    /\ GuiAt("prompting")
    /\ tickets' = TurnOver(stored)
    /\ GuiGoTo(IF stored THEN "bind" ELSE "advance")
    /\ UNCHANGED <<bridgeState, registryState, issuing, slotOpen, guiHistory>>

(* complete_secure_prompt binds the value; a closed session refuses it     *)
CompletePrompt ==
    /\ GuiAt("bind")
    /\ binds' = IF slotOpen THEN binds \cup {gui.action} ELSE binds
    /\ GuiGoTo("advance")
    /\ UNCHANGED <<bridgeState, registryState, issuing, tickets, slotOpen, takes>>

(* advance_generation: a closed host refuses; otherwise the actions of the *)
(* page that ends are dropped ...                                          *)
InvalidateGeneration ==
    /\ GuiAt("advance")
    /\ IF bridgeClosed
       THEN gui' = IdleGui /\ UNCHANGED actions
       ELSE /\ actions' = {e \in actions : e.gen # documentGeneration}
            /\ gui' = [gui EXCEPT !.step = "store", !.previous = documentGeneration]
    /\ UNCHANGED <<bridgeState, actionsIssued, issuing, tickets, slotOpen, guiHistory>>

(* ... and then the next generation is stored.                             *)
StoreGeneration ==
    /\ GuiAt("store")
    /\ gui.previous < MaxDocuments
    /\ documentGeneration' = gui.previous + 1
    /\ GuiGoTo("callback")
    /\ UNCHANGED <<bridgeClosed, registryState, issuing, tickets, slotOpen, guiHistory>>

(* dispatch_callback runs the VM and replaces the document, or fails.      *)
DispatchCallback ==
    /\ GuiAt("callback")
    /\ gui' = IdleGui
    /\ UNCHANGED <<bridgeState, registryState, issuing, tickets, slotOpen, guiHistory>>

(* WebviewSession::close, when the window closes, the user quits or the    *)
(* page navigates: the bridge, then its actions, then the session          *)
CloseBridge ==
    /\ GuiAt("idle") /\ ~bridgeClosed
    /\ bridgeClosed' = TRUE
    /\ GuiGoTo("close_actions")
    /\ UNCHANGED <<documentGeneration, registryState, issuing, tickets, slotOpen, guiHistory>>

InvalidateAll ==
    /\ GuiAt("close_actions")
    /\ actions' = {}
    /\ GuiGoTo("close_session")
    /\ UNCHANGED <<bridgeState, actionsIssued, issuing, tickets, slotOpen, guiHistory>>

CloseSession ==
    /\ GuiAt("close_session")
    /\ slotOpen' = FALSE
    /\ gui' = IdleGui
    /\ UNCHANGED <<bridgeState, registryState, issuing, tickets, guiHistory>>

-----------------------------------------------------------------------------
GuiNext ==
    \/ \E i \in Issuers : CheckOpen(i) \/ ReadGeneration(i) \/ IssueAction(i)
    \/ \E e \in actions : ActionAges(e) \/ TakeAction(e) \/ TakeExpired(e)
    \/ \E stored \in BOOLEAN : EndPrompt(stored)
    \/ OrdinaryEvent \/ BeginPrompt \/ CompletePrompt
    \/ InvalidateGeneration \/ StoreGeneration \/ DispatchCallback
    \/ CloseBridge \/ InvalidateAll \/ CloseSession

GuiSpec == GuiInit /\ [][GuiNext]_guiVars

-----------------------------------------------------------------------------
(* Every variable has its type.                                            *)
GuiTypeOK ==
    /\ documentGeneration \in 1 .. MaxDocuments /\ bridgeClosed \in BOOLEAN
    /\ actions \subseteq [id : ActionIds, gen : 1 .. MaxDocuments, old : BOOLEAN]
    /\ actionsIssued \in 0 .. MaxActions
    /\ issuing \in [Issuers -> [step : {"idle", "open", "issue"}, gen : 0 .. MaxDocuments]]
    /\ gui \in [step : GuiSteps, action : 0 .. MaxActions, previous : 0 .. MaxDocuments]
    /\ tickets \in [session : Nat, next : Nat, active : BOOLEAN]
    /\ slotOpen \in BOOLEAN
    /\ takes \in [ActionIds -> Seq(Nat \X Nat)]
    /\ binds \subseteq ActionIds

(* A secret is bound only through an action the user took on the page that *)
(* offered it, once: no action is taken twice or after the host closed, an *)
(* action issued while the page was being replaced never opens a prompt on *)
(* a later page, and the entries such an issue leaves behind, also after   *)
(* the actions were cleared for good, stay unusable.                       *)
ActionsUsedOnce ==
    /\ \A id \in ActionIds : Len(takes[id]) <= 1
    /\ \A id \in ActionIds : \A k \in DOMAIN takes[id] : takes[id][k][1] = takes[id][k][2]
    /\ \A e \in actions : takes[e.id] = << >>
    /\ binds \subseteq {id \in ActionIds : takes[id] # << >>}
    /\ gui.step \in {"prompt", "prompting", "bind"} =>
          /\ ~bridgeClosed /\ slotOpen
          /\ takes[gui.action][1][2] = documentGeneration

(* The GUI thread never waits for a turn that does not come: when it has   *)
(* an action the coordinator is ready for its ticket, whatever the prompts *)
(* before it ended in.                                                     *)
PromptReady == GuiAt("prompt") => ~tickets.active /\ tickets.session - 1 = tickets.next

(* Actions lead to at most one prompt each, and to that one without delay, *)
(* through every order of issues, page loads, prompts and the shutdown.    *)
ActionsPromptOnce == ActionsUsedOnce /\ PromptReady

=============================================================================
