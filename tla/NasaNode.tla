------------------------------ MODULE NasaNode ------------------------------
(***************************************************************************)
(* The NASA node (nodes/Nasa/Nasa.node.ts): its description, as the        *)
(* parameters it displays for a form, and execute(), the loop over the     *)
(* input items.  Everything an item's request returns is abstracted to     *)
(* the entries it adds to the output; what is kept is which parameters an  *)
(* item reads, where it can fail, and the state the loop carries from one *)
(* item to the next (the variable download).                               *)
(***************************************************************************)
EXTENDS Integers, Sequences, NodeParameters

CONSTANTS
  NumItems,   \* input items of one execution
  MaxListed   \* entries an array response may hold

Items == 1..NumItems

-----------------------------------------------------------------------------
(* The description.                                                        *)

Donki == {"donkiCoronalMassEjection", "donkiInterplanetaryShock",
          "donkiSolarFlare", "donkiSolarEnergeticParticle",
          "donkiMagnetopauseCrossing", "donkiRadiationBeltEnhancement",
          "donkiHighSpeedStream", "donkiWsaEnlilSimulation",
          "donkiNotifications"}

\* The options of 'resource' (donkiGeomagneticStorm is commented out).
Resources == {"astronomyPictureOfTheDay", "asteroidNeoFeed", "asteroidNeoLookup",
              "asteroidNeoBrowse", "earthImagery", "earthAssets"} \cup Donki

\* Every 'operation' property offers one option for its resources.
OperationOf(r) == IF r = "asteroidNeoBrowse" THEN "getAll" ELSE "get"

Earth == {"earthImagery", "earthAssets"}
Apod  == "astronomyPictureOfTheDay"

Properties ==
  { Param("asteroidId", On({"asteroidNeoLookup"}, {"get"})),
    Param("download", "resource" :> {Apod}),
    Param("binaryPropertyName", OnIf({Apod}, {"get"}, "download", {TRUE})),
    Param("binaryPropertyName", On({"earthImagery"}, {"get"})),
    Param("lat", On(Earth, {"get"})),
    Param("lon", On(Earth, {"get"})),
    Param("returnAll", "operation" :> {"getAll"}),
    Param("limit", ("operation" :> {"getAll"}) @@ ("returnAll" :> {FALSE})) } \cup
  { Param("additionalFields", On(rs, {"get"})) :
      rs \in {{"asteroidNeoLookup"}, {Apod}, Earth, {"donkiInterplanetaryShock"},
              {"asteroidNeoFeed", "donkiGeomagneticStorm"} \cup
                (Donki \ {"donkiInterplanetaryShock"})} }

\* A control that is not displayed keeps its default.
Defaults == [download |-> TRUE, returnAll |-> FALSE]

Forms ==
  { f \in [resource : Resources, operation : {"get", "getAll"},
           download : BOOLEAN, returnAll : BOOLEAN] :
      /\ f.operation = OperationOf(f.resource)
      /\ \A k \in DOMAIN Defaults :
           k \in DisplayedNames(Properties, f) \/ f[k] = Defaults[k] }

-----------------------------------------------------------------------------
(* execute().                                                              *)

\* Variant that reads limit whether or not returnAll is set.
ReadsBeforeRequest_limitAlways(f) ==
  CASE f.resource = "asteroidNeoLookup" -> {"asteroidId"}
    [] f.resource = "asteroidNeoBrowse" -> {"returnAll", "limit"}
    [] f.resource \in Earth             -> {"lat", "lon"}
    [] OTHER                            -> {}

(* Parameters read before the request (additionalFields is read inside a  *)
(* try/catch of its own that falls back to {}).                            *)
ReadsBeforeRequest(f) ==
  CASE f.resource = "asteroidNeoLookup" -> {"asteroidId"}
    [] f.resource = "asteroidNeoBrowse" ->
         {"returnAll"} \cup (IF f.returnAll THEN {} ELSE {"limit"})
    [] f.resource \in Earth             -> {"lat", "lon"}
    [] OTHER                            -> {}

\* Variant that reads the binary property under the local variable's name.
ReadsAfterRequest_misnamed(f) ==
  CASE f.resource = Apod           ->
         {"download"} \cup (IF f.download THEN {"binaryProperty"} ELSE {})
    [] f.resource = "earthImagery" -> {"binaryProperty"}
    [] OTHER                       -> {}

\* Parameters read after the request: download at index 0 for the picture.
ReadsAfterRequest(f) ==
  CASE f.resource = Apod           ->
         {"download"} \cup (IF f.download THEN {"binaryPropertyName"} ELSE {})
    [] f.resource = "earthImagery" -> {"binaryPropertyName"}
    [] OTHER                       -> {}

\* With returnAll, nasaApiRequestAllItems is called without await.
Detached(f) == f.resource = "asteroidNeoBrowse" /\ f.returnAll

\* A second request fetches the image into the item's binary data.
FetchesImage(f) ==
  f.resource = "earthImagery" \/ (f.resource = Apod /\ f.download)

\* The catch and the return use the items for these (dl: the variable download).
ToItems(f, dl) == f.resource = "earthImagery" \/ (f.resource = Apod /\ dl)

(* The response pushed: an array for the feed, the browse page and DONKI, *)
(* one object otherwise, and with returnAll the pending promise itself.   *)
ResponseEntries(i, f) ==
  IF Detached(f) THEN {<<Entry(i, "promise")>>}
  ELSE IF f.resource \in Donki \cup {"asteroidNeoFeed", "asteroidNeoBrowse"}
       THEN {[k \in 1..n |-> Entry(i, "result")] : n \in 0..MaxListed}
       ELSE {<<Entry(i, "result")>>}

(* Resources whose additionalFields collection offers a date, given or   *)
(* not per item.                                                           *)
Dated == {Apod} \cup Earth

\* Values of qs.date: not set, today's date, or the date item i gave.
NoDate == <<"unset", 0>>
Today  == <<"today", 0>>
DateOf(i) == <<"given", i>>
NoRequest == <<"none", 0>>

(* qs.date after the item's parameters are set (qs is declared once, before *)
(* the loop): the item's date, or today, for the picture (moment(undefined) *)
(* formats as today) and earthImagery; earthAssets only sets it when the   *)
(* item has a date.                                                        *)
QueryDate(f, i, given, date) ==
  CASE f.resource \in {Apod, "earthImagery"} -> IF given THEN DateOf(i) ELSE Today
    [] f.resource = "earthAssets"            -> IF given THEN DateOf(i) ELSE date
    [] OTHER                                 -> date

VARIABLES
  form,           \* the node's parameter values the show conditions look at
  continueOnFail, \* the node's "Continue On Fail" setting
  next,           \* the loop index i (items before it are done)
  returnData,     \* entries pushed so far
  items,          \* item -> "input", "binary" or "error"
  failed,         \* items whose processing hit the catch
  badReads,       \* parameters read that the form does not display
  download,       \* the variable download, declared before the loop
  qsDate,         \* qs.date
  sentDate,       \* item -> the qs.date its request was sent with (NoRequest: none)
  status,         \* "running", "returned" or "threw"
  output          \* what execute() resolved with

vars == <<form, continueOnFail, next, returnData, items, failed, badReads,
          download, qsDate, sentDate, status, output>>

Init ==
  /\ form \in Forms /\ continueOnFail \in BOOLEAN
  /\ next = 1 /\ returnData = <<>> /\ items = [k \in Items |-> "input"]
  /\ failed = {} /\ badReads = {} /\ download = FALSE
  /\ qsDate = NoDate /\ sentDate = [k \in Items |-> NoRequest]
  /\ status = "running" /\ output = <<>>

(* The catch: with continueOnFail the error goes on the item for an earth *)
(* image, or for the picture when download is true, and is pushed as an   *)
(* entry otherwise; without it the error is rethrown.  dl is the value    *)
(* download has when the item fails.                                       *)
Catch(i, dl) ==
  /\ failed' = failed \cup {i} /\ download' = dl
  /\ \/ continueOnFail /\ ToItems(form, dl)
        /\ items' = [items EXCEPT ![i] = "error"] /\ UNCHANGED <<returnData, status>>
     \/ continueOnFail /\ ~ToItems(form, dl)
        /\ returnData' = Append(returnData, Entry(i, "error"))
        /\ UNCHANGED <<items, status>>
     \/ ~continueOnFail /\ status' = "threw" /\ UNCHANGED <<items, returnData>>

(* One pass of the loop body for item i: the reads before the request, the *)
(* request with qs (awaited unless detached), the reads after it (the picture sets *)
(* download here), the image request, then the push of the response.  An *)
(* undisplayed parameter makes getNodeParameter throw; each awaited        *)
(* request may fail.                                                       *)
ProcessItem ==
  /\ status = "running" /\ next \in Items
  /\ next' = next + 1
  /\ UNCHANGED <<form, continueOnFail, output>>
  /\ \E given \in IF form.resource \in Dated THEN BOOLEAN ELSE {FALSE} :
     LET i      == next
         shown  == DisplayedNames(Properties, form)
         before == ReadsBeforeRequest(form) \ shown
         after  == ReadsAfterRequest(form) \ shown
         dl     == IF form.resource = Apod THEN form.download ELSE download
         date   == QueryDate(form, i, given, qsDate)
     IN /\ qsDate' = IF before = {} THEN date ELSE qsDate
        /\ sentDate' = IF before = {} THEN [sentDate EXCEPT ![i] = date] ELSE sentDate
        /\ \/ (before # {} \/ ~Detached(form))   \* a read, or the awaited request, throws
              /\ badReads' = badReads \cup before /\ Catch(i, download)
           \/ before = {} /\ (after # {} \/ FetchesImage(form))
              /\ badReads' = badReads \cup after
              /\ Catch(i, dl)           \* a read after it, or the image request, throws
           \/ before = {} /\ after = {} /\ UNCHANGED <<badReads, failed, status>>
              /\ download' = dl
              /\ items' = (IF FetchesImage(form) THEN [items EXCEPT ![i] = "binary"]
                                                 ELSE items)
              /\ \E r \in ResponseEntries(i, form) : returnData' = returnData \o r

\* After the loop: the items or returnData, by the final value of download.
Return ==
  /\ status = "running" /\ next = NumItems + 1
  /\ status' = "returned"
  /\ output' = IF ToItems(form, download)
               THEN [k \in Items |-> Entry(k, IF items[k] = "error" THEN "error"
                                                ELSE "result")]
               ELSE returnData
  /\ UNCHANGED <<form, continueOnFail, next, returnData, items, failed,
                 badReads, download, qsDate, sentDate>>

\* execute() has resolved or thrown.
Done == status # "running" /\ UNCHANGED vars

Next == ProcessItem \/ Return \/ Done

Spec == Init /\ [][Next]_vars

-----------------------------------------------------------------------------
(* Properties.                                                             *)

TypeOK ==
  /\ form \in Forms /\ continueOnFail \in BOOLEAN /\ download \in BOOLEAN
  /\ next \in 1..(NumItems + 1)
  /\ returnData \in Seq([item : Items, kind : {"result", "error", "promise"}])
  /\ items \in [Items -> {"input", "binary", "error"}]
  /\ failed \subseteq Items /\ badReads \subseteq {p.name : p \in Properties}
  /\ status \in {"running", "returned", "threw"}
  /\ LET dates == {NoDate, Today} \cup {DateOf(i) : i \in Items}
     IN qsDate \in dates /\ sentDate \in [Items -> dates \cup {NoRequest}]

(* Every getNodeParameter call outside the additionalFields try/catch      *)
(* names a parameter the description displays for the form, so no item    *)
(* fails on a hidden parameter (limit is read only when returnAll is off). *)
ReadsDisplayed == badReads = {}

(* With continueOnFail, every item whose processing failed is reported as *)
(* an error in what execute() returns: on the item when the output is the *)
(* items, as an entry when it is returnData.                               *)
FailedItemsReported ==
  (status = "returned" /\ continueOnFail) =>
    \A i \in failed : \E k \in 1..Len(output) : output[k] = Entry(i, "error")

(* Each item's request carries the date of that item, or none or today, *)
(* never the date another item gave: qs is shared by the whole loop, and *)
(* an earthAssets item without a date must not send the previous item's. *)
QueryDateOwn ==
  \A i \in Items : sentDate[i] \in {DateOf(i), NoDate, Today, NoRequest}

=============================================================================
