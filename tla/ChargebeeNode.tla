---------------------------- MODULE ChargebeeNode ----------------------------
(***************************************************************************)
(* The Chargebee node (nodes/Chargebee/Chargebee.node.ts): its description *)
(* as the parameters displayed per resource and operation, and execute(), *)
(* the loop over the input items: the reads of the chosen operation (most *)
(* of them with a fallback value), one request, the push of its response  *)
(* and the catch.  Request bodies and query strings are abstracted away.   *)
(***************************************************************************)
EXTENDS Integers, Sequences, NodeParameters

CONSTANTS
  NumItems,   \* input items of one execution
  MaxListed   \* invoices a list response may hold

Items == 1..NumItems

-----------------------------------------------------------------------------
(* The description.                                                        *)

\* The resource options, each with its operation property.
OperationsOf ==
  ("customer" :> {"create"}) @@ ("invoice" :> {"list", "pdfUrl"}) @@
  ("subscription" :> {"cancel", "delete"})

Resources == DOMAIN OperationsOf

Properties ==
  { Param("properties",     On({"customer"}, {"create"})),
    Param("maxResults",     On({"invoice"}, {"list"})),
    Param("filters",        On({"invoice"}, {"list"})),
    Param("invoiceId",      On({"invoice"}, {"pdfUrl"})),
    Param("subscriptionId", On({"subscription"}, {"cancel", "delete"})),
    Param("endOfTerm",      On({"subscription"}, {"cancel"})) }

Forms ==
  UNION {{[resource |-> r, operation |-> o] : o \in OperationsOf[r]} : r \in Resources}

-----------------------------------------------------------------------------
(* execute().                                                              *)

\* Variant in which both invoice operations read the invoice id.
ItemReads_invoiceIdAlways(f) ==
  CASE f.operation = "create" -> {Read("properties", TRUE)}
    [] f.operation = "list"   -> {Read("maxResults", TRUE), Read("filters", TRUE),
                                  Read("invoiceId", FALSE)}
    [] f.operation = "pdfUrl" -> {Read("invoiceId", FALSE)}
    [] f.operation = "cancel" -> {Read("subscriptionId", TRUE), Read("endOfTerm", TRUE)}
    [] f.operation = "delete" -> {Read("subscriptionId", TRUE)}

\* The getNodeParameter calls of an item's branch (TRUE: with a fallback).
ItemReads(f) ==
  CASE f.operation = "create" -> {Read("properties", TRUE)}
    [] f.operation = "list"   -> {Read("maxResults", TRUE), Read("filters", TRUE)}
    [] f.operation = "pdfUrl" -> {Read("invoiceId", FALSE)}
    [] f.operation = "cancel" -> {Read("subscriptionId", TRUE), Read("endOfTerm", TRUE)}
    [] f.operation = "delete" -> {Read("subscriptionId", TRUE)}

\* A list pushes one entry per invoice, any other operation one entry.
ResponseEntries(i, f) ==
  IF f.operation = "list"
  THEN {[k \in 1..n |-> Entry(i, "result")] : n \in 0..MaxListed}
  ELSE {<<Entry(i, "result")>>}

VARIABLES
  form,           \* resource and operation
  continueOnFail, \* the node's "Continue On Fail" setting
  next,           \* the loop index i
  returnData,     \* entries pushed so far
  failed,         \* items whose processing hit the catch
  badReads,       \* parameters read without a fallback that the form hides
  status,         \* "running", "returned" or "threw"
  output          \* what execute() resolved with

vars == <<form, continueOnFail, next, returnData, failed, badReads, status, output>>

Init ==
  /\ form \in Forms /\ continueOnFail \in BOOLEAN
  /\ next = 1 /\ returnData = <<>> /\ failed = {} /\ badReads = {}
  /\ status = "running" /\ output = <<>>

(* The catch: with continueOnFail an error entry is pushed and the loop   *)
(* goes on; otherwise the error is rethrown.                               *)
Catch(i) ==
  /\ failed' = failed \cup {i}
  /\ \/ continueOnFail /\ returnData' = Append(returnData, Entry(i, "error"))
        /\ UNCHANGED status
     \/ ~continueOnFail /\ status' = "threw" /\ UNCHANGED returnData

(* One pass of the loop body for item i: a read throws, the request (its  *)
(* own catch rethrows as NodeApiError) or the response access throws, or  *)
(* the response is pushed.                                                 *)
ProcessItem ==
  /\ status = "running" /\ next \in Items
  /\ next' = next + 1
  /\ UNCHANGED <<form, continueOnFail, output>>
  /\ LET i      == next
         throws == {r.name : r \in Throwing(ItemReads(form), Properties, form)}
     IN /\ badReads' = badReads \cup throws
        /\ \/ Catch(i)
           \/ throws = {} /\ UNCHANGED <<failed, status>>
              /\ \E r \in ResponseEntries(i, form) : returnData' = returnData \o r

\* After the loop: returnJsonArray(returnData).
Return ==
  /\ status = "running" /\ next = NumItems + 1
  /\ status' = "returned" /\ output' = returnData
  /\ UNCHANGED <<form, continueOnFail, next, returnData, failed, badReads>>

\* execute() has resolved or thrown.
Done == status # "running" /\ UNCHANGED vars

Next == ProcessItem \/ Return \/ Done

Spec == Init /\ [][Next]_vars

-----------------------------------------------------------------------------
(* Properties.                                                             *)

TypeOK ==
  /\ form \in Forms /\ continueOnFail \in BOOLEAN
  /\ next \in 1..(NumItems + 1)
  /\ returnData \in Seq([item : Items, kind : {"result", "error"}])
  /\ failed \subseteq Items /\ badReads \subseteq {p.name : p \in Properties}
  /\ status \in {"running", "returned", "threw"}

(* Every getNodeParameter call without a fallback names a parameter the   *)
(* description displays for the item's resource and operation.            *)
ReadsDisplayed == badReads = {}

=============================================================================
