--------------------------- MODULE NodeParameters ---------------------------
(***************************************************************************)
(* What a node's execute() relies on from n8n-workflow (not part of the    *)
(* repository): a parameter of the node description is displayed when     *)
(* every parameter its displayOptions.show names holds one of the listed   *)
(* values, and only displayed parameters (with their defaults) are kept    *)
(* in the node's parameters, so getNodeParameter of any other name throws  *)
(* "Could not get parameter".  A form is the record of the values the      *)
(* show conditions look at.                                                *)
(***************************************************************************)
EXTENDS TLC

\* A description entry: its name and its displayOptions.show.
Param(name, show) == [name |-> name, show |-> show]

\* show: { resource: res, operation: ops }.
On(res, ops) == ("resource" :> res) @@ ("operation" :> ops)

\* show: { resource: res, operation: ops, k: vals }.
OnIf(res, ops, k, vals) == On(res, ops) @@ (k :> vals)

\* NodeHelpers.displayParameter for show conditions.
Shown(p, form) == \A k \in DOMAIN p.show : form[k] \in p.show[k]

\* The parameters getNodeParameter can read under this form.
DisplayedNames(params, form) == {p.name : p \in {q \in params : Shown(q, form)}}

\* getNodeParameter(name, i, fallbackValue?): whether a fallback is passed.
Read(name, fallback) == [name |-> name, fallback |-> fallback]

(* The reads that throw under the form: a hidden parameter read without a *)
(* fallback (with one, the fallback is returned).                          *)
Throwing(reads, params, form) ==
  {r \in reads : ~r.fallback /\ r.name \notin DisplayedNames(params, form)}

(* The entries a node's output holds: the item it is paired with and its   *)
(* kind ("result", "error", or "unwrapped" for an object pushed without   *)
(* the { json } wrapper).                                                  *)
Entry(i, kind) == [item |-> i, kind |-> kind]

=============================================================================
