------------------------------- MODULE MCNodes -------------------------------
(***************************************************************************)
(* One node's execute() per behaviour: the Nextcloud, NASA, Chargebee or   *)
(* Execute Workflow Trigger node, under every form of its description (or  *)
(* every input source and field declaration) and both continueOnFail       *)
(* settings, or the OpenAI assistant 'message' operation run by two        *)
(* concurrent executions against one assistant.  The nodes share no state; the nodes not chosen stay at a      *)
(* fixed initial state.  Two items, so that what one item leaves behind     *)
(* can meet the next one.                                                   *)
(***************************************************************************)
EXTENDS Naturals

CONSTANTS NumItems, MaxListed, Names, FieldTypes, MaxEntries,
          Execs, Versions, MaxHistory, ThreadCreateLimit

VARIABLES
  ncForm, ncContinueOnFail, ncNext, ncReturnData, ncItems, ncFailed,
  ncBadReads, ncStatus, ncOutput,
  naForm, naContinueOnFail, naNext, naReturnData, naItems, naFailed,
  naBadReads, naDownload, naQsDate, naSentDate, naStatus, naOutput,
  cbForm, cbContinueOnFail, cbNext, cbReturnData, cbFailed, cbBadReads,
  cbStatus, cbOutput,
  ewVersion, ewSource, ewFieldEntries, ewContinueOnFail, ewNext, ewOutput,
  ewDropped, ewStatus, ewThrown,
  oaTools, oaOriginal, oaConf, oaPc, oaSnap, oaThread, oaRest, oaMemory,
  node   \* the node whose execute() runs

NC == INSTANCE NextCloudNode
        WITH form <- ncForm, continueOnFail <- ncContinueOnFail, next <- ncNext,
             returnData <- ncReturnData, items <- ncItems, failed <- ncFailed,
             badReads <- ncBadReads, status <- ncStatus, output <- ncOutput

NA == INSTANCE NasaNode
        WITH form <- naForm, continueOnFail <- naContinueOnFail, next <- naNext,
             returnData <- naReturnData, items <- naItems, failed <- naFailed,
             badReads <- naBadReads, download <- naDownload, qsDate <- naQsDate,
             sentDate <- naSentDate, status <- naStatus,
             output <- naOutput

CB == INSTANCE ChargebeeNode
        WITH form <- cbForm, continueOnFail <- cbContinueOnFail, next <- cbNext,
             returnData <- cbReturnData, failed <- cbFailed, badReads <- cbBadReads,
             status <- cbStatus, output <- cbOutput

EW == INSTANCE ExecuteWorkflowTriggerNode
        WITH version <- ewVersion, source <- ewSource, fieldEntries <- ewFieldEntries,
             continueOnFail <- ewContinueOnFail, next <- ewNext, output <- ewOutput,
             dropped <- ewDropped, status <- ewStatus, thrown <- ewThrown

OA == INSTANCE OpenAiAssistantMessage
        WITH tools <- oaTools, original <- oaOriginal, conf <- oaConf, pc <- oaPc,
             snap <- oaSnap, thread <- oaThread, rest <- oaRest, memory <- oaMemory

ncVars == <<ncForm, ncContinueOnFail, ncNext, ncReturnData, ncItems, ncFailed,
            ncBadReads, ncStatus, ncOutput>>
naVars == <<naForm, naContinueOnFail, naNext, naReturnData, naItems, naFailed,
            naBadReads, naDownload, naQsDate, naSentDate, naStatus, naOutput>>

cbVars == <<cbForm, cbContinueOnFail, cbNext, cbReturnData, cbFailed,
            cbBadReads, cbStatus, cbOutput>>
ewVars == <<ewVersion, ewSource, ewFieldEntries, ewContinueOnFail, ewNext,
            ewOutput, ewDropped, ewStatus, ewThrown>>
oaVars == <<oaTools, oaOriginal, oaConf, oaPc, oaSnap, oaThread, oaRest, oaMemory>>

\* The initial state of a node that is not chosen.
NCParked == NC!Init /\ ncForm = (CHOOSE f \in NC!Forms : TRUE) /\ ~ncContinueOnFail
NAParked == NA!Init /\ naForm = (CHOOSE f \in NA!Forms : TRUE) /\ ~naContinueOnFail
CBParked == CB!Init /\ cbForm = (CHOOSE f \in CB!Forms : TRUE) /\ ~cbContinueOnFail
EWParked == /\ EW!Init /\ ewVersion = "1" /\ ewSource = "jsonSchema"
            /\ ewFieldEntries.error = "parse" /\ ~ewContinueOnFail
OAParked == /\ oaTools = {} /\ oaOriginal = {}
            /\ oaConf = [p \in Execs |-> CHOOSE c \in OA!Confs : TRUE]
            /\ oaPc = [p \in Execs |-> "start"] /\ oaSnap = [p \in Execs |-> {}]
            /\ oaThread = [p \in Execs |-> <<>>] /\ oaRest = oaThread
            /\ oaMemory = oaThread
            /\ OA!Init

Init ==
  \/ node = "nextCloud" /\ NC!Init /\ NAParked /\ CBParked /\ EWParked /\ OAParked
  \/ node = "nasa"      /\ NCParked /\ NA!Init /\ CBParked /\ EWParked /\ OAParked
  \/ node = "chargebee" /\ NCParked /\ NAParked /\ CB!Init /\ EWParked /\ OAParked
  \/ node = "executeWorkflowTrigger" /\ NCParked /\ NAParked /\ CBParked /\ EW!Init
     /\ OAParked
  \/ node = "openAiAssistant" /\ NCParked /\ NAParked /\ CBParked /\ EWParked /\ OA!Init

Next ==
  \/ node = "nextCloud" /\ NC!Next /\ UNCHANGED <<naVars, cbVars, ewVars, oaVars, node>>
  \/ node = "nasa"      /\ NA!Next /\ UNCHANGED <<ncVars, cbVars, ewVars, oaVars, node>>
  \/ node = "chargebee" /\ CB!Next /\ UNCHANGED <<ncVars, naVars, ewVars, oaVars, node>>
  \/ node = "executeWorkflowTrigger" /\ EW!Next
     /\ UNCHANGED <<ncVars, naVars, cbVars, oaVars, node>>
  \/ node = "openAiAssistant" /\ OA!Next
     /\ UNCHANGED <<ncVars, naVars, cbVars, ewVars, node>>

Spec == Init /\ [][Next]_<<ncVars, naVars, cbVars, ewVars, oaVars, node>>

(* The type invariant of the node that runs; a parked node keeps one of   *)
(* its module's initial states.                                            *)
TypeOK ==
  /\ node = "nextCloud" => NC!TypeOK
  /\ node = "nasa" => NA!TypeOK
  /\ node = "chargebee" => CB!TypeOK
  /\ node = "executeWorkflowTrigger" => EW!TypeOK
  /\ node = "openAiAssistant" => OA!TypeOK

(* The Nextcloud node only reads parameters its description displays for  *)
(* the form (user getAll reads limit only without returnAll).              *)
NextCloudReadsDisplayed == NC!ReadsDisplayed

(* With continueOnFail every failed Nextcloud item is reported as an error *)
(* in the node's output, on the item for a download, as an entry else.    *)
NextCloudFailedItemsReported == NC!FailedItemsReported

(* The NASA node only reads parameters its description displays for the   *)
(* form (asteroidNeoBrowse reads limit only without returnAll).            *)
NasaReadsDisplayed == NA!ReadsDisplayed

(* The Chargebee node reads without a fallback only parameters displayed   *)
(* for the resource and operation (invoiceId only for pdfUrl).             *)
ChargebeeReadsDisplayed == CB!ReadsDisplayed

(* OpenAI assistant: the code interpreter and file search the assistant   *)
(* had survive every interleaving of two executions' tool updates.        *)
AssistantNativeToolsKept == OA!NativeToolsKept

(* OpenAI assistant: the agent runs on a thread holding the whole chat    *)
(* memory in order, across the split at threads.create's limit.            *)
AssistantThreadMirrorsHistory == OA!ThreadMirrorsHistory
=============================================================================
