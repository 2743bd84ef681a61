------------------------ MODULE OpenAiAssistantMessage ------------------------
(***************************************************************************)
(* The OpenAI node's assistant 'message' operation                         *)
(* (nodes-langchain/nodes/vendors/OpenAi/actions/assistant/                *)
(* message.operation.ts), execute(i) for concurrent executions that use    *)
(* the same assistant.  Each await is a step, so the executions'           *)
(* steps interleave on the event loop.  Shared state: the assistant's tool *)
(* list at OpenAI.  Per execution: its place in execute(), the tool list   *)
(* it retrieved (assistantTools), the thread it built from its chat memory *)
(* and the memory itself.  Every awaited call to OpenAI or to the memory   *)
(* may throw, which ends execute(i) with that error.  Prompt text, the     *)
(* client options and the response's contents are left out.                *)
(***************************************************************************)
EXTENDS Integers, Sequences

CONSTANTS
  Execs,             \* executions running the operation (1..n)
  Versions,          \* node typeVersions considered
  MaxHistory,        \* messages the chat memory holds at most when a run starts
  ThreadCreateLimit  \* messages threads.create takes (32 in the code)

(* A tool is <<type, owner>>: the assistant's own code_interpreter,        *)
(* file_search and function tools, and each execution's connected tool.  *)
NativeTypes   == {"code_interpreter", "file_search"}
Assistant     == 0   \* the owner of the assistant's own tools
OwnTools      == {<<t, Assistant>> : t \in NativeTypes \cup {"function"}}
ConnTool(p)   == <<"function", p>>
Tools         == OwnTools \cup {ConnTool(p) : p \in Execs}

(* The parameters of one execution.  'preserveOriginalTools' is displayed *)
(* from version 1.3 only; below it the option is unset, which is not      *)
(* false.  The input ('text', or $json.chatInput for prompt 'auto') is    *)
(* there, or undefined: an item without chatInput under 'auto'.           *)
Confs ==
  {c \in [version : Versions, preserve : BOOLEAN, hasTools : BOOLEAN,
          memory : BOOLEAN, input : {"given", "undefined"}] :
     c.version # "1.3" => c.preserve}

\* A chat memory's messages alternate between the human and the AI.
Histories == {[k \in 1..n |-> IF k % 2 = 1 THEN "human" ELSE "ai"] : n \in 0..MaxHistory}

(* mapChatMessageToThreadMessage, for message k of a history: role        *)
(* 'assistant' for an AI message, 'user' else; content identifies it.     *)
Mapped(h, k) == [role |-> IF h[k] = "ai" THEN "assistant" ELSE "user", content |-> k]
MappedFrom(h, first, last) == [j \in 1..(last - first + 1) |-> Mapped(h, first + j - 1)]

\* chatMessages.slice(0, n) and chatMessages.slice(n), mapped.
FirstMapped(h, n) == MappedFrom(h, 1, IF n < Len(h) THEN n ELSE Len(h))
RestMapped(h, n)  == MappedFrom(h, n + 1, Len(h))

\* Variant that takes the native tools by the former type name 'retrieval'.
NativeToolsParsed_retrieval(ts) ==
  {<<t, Assistant>> : t \in {u[1] : u \in ts} \cap {"code_interpreter", "retrieval"}}

(* nativeToolsParsed: code_interpreter and file_search when some retrieved *)
(* tool has that type.                                                     *)
NativeToolsParsed(ts) ==
  {<<t, Assistant>> : t \in {u[1] : u \in ts} \cap NativeTypes}

VARIABLES
  tools,     \* the assistant's tools at OpenAI
  original,  \* the assistant's tools before any execution (history)
  conf,      \* execution -> its parameters
  pc,        \* execution -> the await it is at
  snap,      \* execution -> assistantTools, as retrieved ({} when undefined)
  thread,    \* execution -> the messages of the thread it created
  rest,      \* execution -> overLimitMessages not yet sent
  memory     \* execution -> its chat memory

vars == <<tools, original, conf, pc, snap, thread, rest, memory>>

Steps == {"start", "retrieve", "update", "history", "sendRest", "invoke",
          "saveMemory", "retrieveRun", "restore", "done", "threw"}

Init ==
  /\ tools \in SUBSET OwnTools /\ original = tools
  /\ conf \in [Execs -> Confs]
  /\ pc = [p \in Execs |-> "start"]
  /\ snap = [p \in Execs |-> {}]
  /\ thread = [p \in Execs |-> <<>>] /\ rest = [p \in Execs |-> <<>>]
  /\ memory \in {m \in [Execs -> Histories] : \A p \in Execs : ~conf[p].memory => m[p] = <<>>}

\* What follows the tools block: the memory's history, or the agent.
AfterTools(p) == IF conf[p].memory THEN "history" ELSE "invoke"

(* The final update puts assistantTools back when preserveOriginalTools   *)
(* is not false, the version is 1.3 or later and the list is not empty.   *)
RestoreWanted(p) == conf[p].preserve /\ conf[p].version = "1.3" /\ snap[p] # {}
AfterRun(p) == IF RestoreWanted(p) THEN "restore" ELSE "done"

Goto(p, s) == pc' = [pc EXCEPT ![p] = s]

(* Up to the tools block: an undefined input throws 'No prompt           *)
(* specified'; without connected tools the block is skipped.              *)
Start(p) ==
  /\ pc[p] = "start"
  /\ Goto(p, CASE conf[p].input = "undefined"  -> "threw"
               [] conf[p].hasTools              -> "retrieve"
               [] OTHER                         -> AfterTools(p))
  /\ UNCHANGED <<tools, original, conf, snap, thread, rest, memory>>

\* assistantTools = (await client.beta.assistants.retrieve(assistantId)).tools
Retrieve(p) ==
  /\ pc[p] = "retrieve"
  /\ snap' = [snap EXCEPT ![p] = tools]
  /\ Goto(p, "update")
  /\ UNCHANGED <<tools, original, conf, thread, rest, memory>>

(* assistants.update with the native tools found and the connected tools; *)
(* the assistant's own function tools are not among them.                 *)
Update(p) ==
  /\ pc[p] = "update"
  /\ tools' = NativeToolsParsed(snap[p]) \cup {ConnTool(p)}
  /\ Goto(p, AfterTools(p))
  /\ UNCHANGED <<original, conf, snap, thread, rest, memory>>

\* Variant whose remaining messages start one past slice(32).
CreateThread_skip(p) ==
  /\ pc[p] = "history"
  /\ IF memory[p] = <<>>
     THEN Goto(p, "invoke") /\ UNCHANGED <<thread, rest>>
     ELSE /\ thread' = [thread EXCEPT ![p] = FirstMapped(memory[p], ThreadCreateLimit)]
          /\ rest' = [rest EXCEPT ![p] = RestMapped(memory[p], ThreadCreateLimit + 1)]
          /\ Goto(p, "sendRest")
  /\ UNCHANGED <<tools, original, conf, snap, memory>>

(* With a memory: its messages; a non-empty history becomes a thread      *)
(* created with the first 32, the rest to be sent one by one.             *)
CreateThread(p) ==
  /\ pc[p] = "history"
  /\ IF memory[p] = <<>>
     THEN Goto(p, "invoke") /\ UNCHANGED <<thread, rest>>
     ELSE /\ thread' = [thread EXCEPT ![p] = FirstMapped(memory[p], ThreadCreateLimit)]
          /\ rest' = [rest EXCEPT ![p] = RestMapped(memory[p], ThreadCreateLimit)]
          /\ Goto(p, "sendRest")
  /\ UNCHANGED <<tools, original, conf, snap, memory>>

\* The loop awaiting threads.messages.create for each over-limit message.
SendRest(p) ==
  /\ pc[p] = "sendRest"
  /\ IF rest[p] = <<>>
     THEN Goto(p, "invoke") /\ UNCHANGED <<thread, rest>>
     ELSE /\ thread' = [thread EXCEPT ![p] = Append(@, Head(rest[p]))]
          /\ rest' = [rest EXCEPT ![p] = Tail(@)]
          /\ UNCHANGED pc
  /\ UNCHANGED <<tools, original, conf, snap, memory>>

(* agentExecutor.invoke runs the assistant, on the thread when one was   *)
(* created; then, with a memory, saveContext and the run's usage.         *)
Invoke(p) ==
  /\ pc[p] = "invoke"
  /\ Goto(p, IF conf[p].memory THEN "saveMemory" ELSE AfterRun(p))
  /\ UNCHANGED <<tools, original, conf, snap, thread, rest, memory>>

SaveMemory(p) ==
  /\ pc[p] = "saveMemory"
  /\ memory' = [memory EXCEPT ![p] = @ \o <<"human", "ai">>]
  /\ Goto(p, "retrieveRun")
  /\ UNCHANGED <<tools, original, conf, snap, thread, rest>>

\* threads.runs.retrieve for the usage.
RetrieveRun(p) ==
  /\ pc[p] = "retrieveRun"
  /\ Goto(p, AfterRun(p))
  /\ UNCHANGED <<tools, original, conf, snap, thread, rest, memory>>

\* assistants.update({ tools: assistantTools }), then the item is returned.
Restore(p) ==
  /\ pc[p] = "restore"
  /\ tools' = snap[p]
  /\ Goto(p, "done")
  /\ UNCHANGED <<original, conf, snap, thread, rest, memory>>

(* Any awaited call may reject (network, timeout, cancel signal): the     *)
(* error leaves execute(i) and nothing after it runs.                     *)
Fail(p) ==
  /\ pc[p] \in Steps \ {"start", "done", "threw"}
  /\ pc[p] = "sendRest" => rest[p] # <<>>
  /\ Goto(p, "threw")
  /\ UNCHANGED <<tools, original, conf, snap, thread, rest, memory>>

\* Every execution has returned or thrown.
Finished ==
  /\ \A p \in Execs : pc[p] \in {"done", "threw"}
  /\ UNCHANGED vars

Next ==
  \/ \E p \in Execs :
       \/ Start(p) \/ Retrieve(p) \/ Update(p) \/ CreateThread(p) \/ SendRest(p)
       \/ Invoke(p) \/ SaveMemory(p) \/ RetrieveRun(p) \/ Restore(p) \/ Fail(p)
  \/ Finished

Spec == Init /\ [][Next]_vars

-----------------------------------------------------------------------------
(* Properties.                                                             *)

TypeOK ==
  /\ tools \subseteq Tools /\ original \subseteq OwnTools
  /\ conf \in [Execs -> Confs]
  /\ pc \in [Execs -> Steps]
  /\ \A p \in Execs : snap[p] \subseteq Tools
  /\ \A p \in Execs : Len(memory[p]) <= MaxHistory + 2

(* The code interpreter and file search the assistant had are never taken *)
(* from it: each update keeps the native tools of the list it retrieved,  *)
(* whatever other execution changed the list before, and whichever calls *)
(* failed.                                                                 *)
NativeToolsKept ==
  {t[1] : t \in original} \cap NativeTypes \subseteq {t[1] : t \in tools}

(* When the agent runs on a thread, the thread holds the whole chat       *)
(* history in order: the first 32 messages given to threads.create and    *)
(* the rest sent one by one, none lost or repeated at the boundary.       *)
ThreadMirrorsHistory ==
  \A p \in Execs :
    pc[p] = "invoke" /\ thread[p] # <<>> =>
      thread[p] = MappedFrom(memory[p], 1, Len(memory[p]))

(* preserveOriginalTools: once every execution has returned, one of       *)
(* version 1.3 or later with the option on leaves the assistant with the  *)
(* tools it had before.                                                    *)
OriginalToolsRestored ==
  (\A p \in Execs : pc[p] = "done") =>
    \A p \in Execs : conf[p].version = "1.3" /\ conf[p].preserve => tools = original

=============================================================================
