---------------------------- MODULE NextCloudNode ----------------------------
(***************************************************************************)
(* The Nextcloud node (src/packages/nodes-base/nodes/NextCloud/            *)
(* NextCloud.node.ts): its description, reduced to which parameter is     *)
(* displayed under which resource, operation and option values, and its   *)
(* execute(), which loops over the input items, reads its parameters,     *)
(* makes the requests of the chosen operation, and on an error either     *)
(* records it for the item (continueOnFail) or throws.  Paths, bodies,    *)
(* headers and response contents are abstracted away; an output entry is  *)
(* the item it belongs to and its kind.                                   *)
(***************************************************************************)
EXTENDS Integers, Sequences, FiniteSets, NodeParameters

CONSTANTS
  NumItems,   \* input items
  MaxListed   \* entries a listing (user getAll, folder list) may yield

ASSUME NumItems \in Nat /\ MaxListed \in Nat

Items == 1..NumItems

-----------------------------------------------------------------------------
(* Description.                                                            *)

FileOperations   == {"copy", "delete", "download", "move", "share", "upload"}
FolderOperations == {"copy", "create", "delete", "list", "move", "share"}
UserOperations   == {"create", "delete", "get", "getAll", "update"}
DeckOperations   == {"createBoard", "getBoards", "updateBoard", "deleteBoard"}
NotesOperations  == {"createNote", "getNotes", "updateNote", "deleteNote"}
TablesOperations == {"createTable", "getTables", "updateTable", "deleteTable"}
TalkOperations   == {"sendMessage", "getConversations", "createConversation",
                     "deleteConversation"}

\* The resource options, each with its operation property.
OperationsOf ==
  ("file" :> FileOperations) @@ ("folder" :> FolderOperations) @@
  ("user" :> UserOperations) @@ ("deck" :> DeckOperations) @@
  ("notes" :> NotesOperations) @@ ("tables" :> TablesOperations) @@
  ("talk" :> TalkOperations)

Resources == DOMAIN OperationsOf

DeckFields ==
  { Param("boardId",   On({"deck"}, {"updateBoard", "deleteBoard"})),
    Param("boardName", On({"deck"}, {"createBoard", "updateBoard"})) }

NotesFields ==
  { Param("noteId",  On({"notes"}, {"updateNote", "deleteNote"})),
    Param("content", On({"notes"}, {"createNote", "updateNote"})) }

TablesFields ==
  { Param("tableId",   On({"tables"}, {"updateTable", "deleteTable"})),
    Param("tableName", On({"tables"}, {"createTable", "updateTable"})) }

TalkFields ==
  { Param("conversationId",   On({"talk"}, {"sendMessage", "deleteConversation"})),
    Param("message",          On({"talk"}, {"sendMessage"})),
    Param("conversationName", On({"talk"}, {"createConversation"})) }

\* file/folder: copy, delete, move.
CopyDeleteMoveFields ==
  { Param("path",   On({"file", "folder"}, {"copy", "delete", "move"})),
    Param("toPath", On({"file", "folder"}, {"copy", "move"})) }

\* file: download, upload.
FileFields ==
  { Param("path",               On({"file"}, {"download", "upload"})),
    Param("binaryPropertyName", On({"file"}, {"download"})),
    Param("binaryDataUpload",   On({"file"}, {"upload"})),
    Param("fileContent",
          OnIf({"file"}, {"upload"}, "binaryDataUpload", {FALSE})),
    Param("binaryPropertyName",
          OnIf({"file"}, {"upload"}, "binaryDataUpload", {TRUE})) }

ShareTypes == {0, 1, 3, 4, 7}   \* user, group, public link, email, circle

\* file/folder: share.
ShareFields ==
  { Param("path",      On({"file", "folder"}, {"share"})),
    Param("shareType", On({"file", "folder"}, {"share"})),
    Param("circleId",  OnIf({"file", "folder"}, {"share"}, "shareType", {7})),
    Param("email",     OnIf({"file", "folder"}, {"share"}, "shareType", {4})),
    Param("groupId",   OnIf({"file", "folder"}, {"share"}, "shareType", {1})),
    Param("user",      OnIf({"file", "folder"}, {"share"}, "shareType", {0})),
    Param("options",   On({"file", "folder"}, {"share"})) }

\* folder: create, list.
FolderFields == { Param("path", On({"folder"}, {"create", "list"})) }

\* user: create.
UserCreateFields ==
  { Param("userId",           On({"user"}, {"create"})),
    Param("email",            On({"user"}, {"create"})),
    Param("additionalFields", On({"user"}, {"create"})) }

\* user: get, delete, update, getAll.
UserOtherFields ==
  { Param("userId",       On({"user"}, {"delete", "get", "update"})),
    Param("returnAll",    On({"user"}, {"getAll"})),
    Param("limit",        OnIf({"user"}, {"getAll"}, "returnAll", {FALSE})),
    Param("options",      On({"user"}, {"getAll"})),
    Param("updateFields", On({"user"}, {"update"})) }

\* description.properties (authentication, resource and operation are
\* displayed under every form).
Properties ==
  DeckFields \cup NotesFields \cup TablesFields \cup TalkFields \cup
  CopyDeleteMoveFields \cup FileFields \cup ShareFields \cup FolderFields \cup
  UserCreateFields \cup UserOtherFields

(* The values the form holds for the parameters show conditions look at;  *)
(* a control that is not displayed keeps its default.                      *)
Defaults == [binaryDataUpload |-> FALSE, shareType |-> 0, returnAll |-> FALSE]

Forms ==
  { f \in [resource : Resources, operation : UNION {OperationsOf[r] : r \in Resources},
           binaryDataUpload : BOOLEAN, shareType : ShareTypes, returnAll : BOOLEAN] :
      /\ f.operation \in OperationsOf[f.resource]
      /\ \A k \in DOMAIN Defaults :
           k \in DisplayedNames(Properties, f) \/ f[k] = Defaults[k] }

-----------------------------------------------------------------------------
(* execute().                                                              *)

\* shareType -> the parameter the share is made with (public link: none).
ShareWith == (0 :> {"user"}) @@ (7 :> {"circleId"}) @@ (4 :> {"email"}) @@
             (1 :> {"groupId"}) @@ (3 :> {})

\* Parameters a file or folder operation reads for an item (download reads
\* binaryPropertyName after its request).
FileFolderReads(f) ==
  CASE f.operation = "download"          -> {"path", "binaryPropertyName"}
    [] f.operation = "upload"            ->
         {"path", "binaryDataUpload",
          IF f.binaryDataUpload THEN "binaryPropertyName" ELSE "fileContent"}
    [] f.operation \in {"create", "list", "delete"} -> {"path"}
    [] f.operation \in {"copy", "move"}  -> {"path", "toPath"}
    [] f.operation = "share"             ->
         {"options", "path", "shareType"} \cup ShareWith[f.shareType]

\* Variant that reads limit whether or not returnAll is set.
UserReads_limitAlways(f) ==
  CASE f.operation = "create"            -> {"userId", "email", "additionalFields"}
    [] f.operation \in {"delete", "get"} -> {"userId"}
    [] f.operation = "getAll"            -> {"returnAll", "options", "limit"}
    [] f.operation = "update"            -> {"userId", "updateFields"}

\* Parameters a user operation reads for an item.
UserReads(f) ==
  CASE f.operation = "create"            -> {"userId", "email", "additionalFields"}
    [] f.operation \in {"delete", "get"} -> {"userId"}
    [] f.operation = "getAll"            ->
         {"returnAll", "options"} \cup (IF f.returnAll THEN {} ELSE {"limit"})
    [] f.operation = "update"            -> {"userId", "updateFields"}

(* The deck, notes, tables and talk operations make their own request and *)
(* push its parsed response unwrapped; a delete pushes { json: success }. *)
DeckRequest(o) ==
  [reads |-> CASE o = "createBoard" -> {"boardName"}
               [] o = "getBoards"   -> {}
               [] o = "updateBoard" -> {"boardId", "boardName"}
               [] o = "deleteBoard" -> {"boardId"},
   entry |-> IF o = "deleteBoard" THEN "result" ELSE "unwrapped"]

NotesRequest(o) ==
  [reads |-> CASE o = "createNote" -> {"content"}
               [] o = "getNotes"   -> {}
               [] o = "updateNote" -> {"noteId", "content"}
               [] o = "deleteNote" -> {"noteId"},
   entry |-> IF o = "deleteNote" THEN "result" ELSE "unwrapped"]

TablesRequest(o) ==
  [reads |-> CASE o = "createTable" -> {"tableName"}
               [] o = "getTables"   -> {}
               [] o = "updateTable" -> {"tableId", "tableName"}
               [] o = "deleteTable" -> {"tableId"},
   entry |-> IF o = "deleteTable" THEN "result" ELSE "unwrapped"]

TalkRequest(o) ==
  [reads |-> CASE o = "sendMessage"        -> {"conversationId", "message"}
               [] o = "getConversations"   -> {}
               [] o = "createConversation" -> {"conversationName"}
               [] o = "deleteConversation" -> {"conversationId"},
   entry |-> IF o = "deleteConversation" THEN "result" ELSE "unwrapped"]

\* The else-if chain over the resources that make their own request first.
OwnRequest(f) ==
  CASE f.resource = "deck"   -> DeckRequest(f.operation)
    [] f.resource = "notes"  -> NotesRequest(f.operation)
    [] f.resource = "tables" -> TablesRequest(f.operation)
    [] f.resource = "talk"   -> TalkRequest(f.operation)

\* Every getNodeParameter(name, i) of one item.
ParamsRead(f) ==
  CASE f.resource \in {"file", "folder"} -> FileFolderReads(f)
    [] f.resource = "user"              -> UserReads(f)
    [] OTHER                            -> OwnRequest(f).reads

IsDownload(f) == f.resource = "file" /\ f.operation = "download"

(* How the generic request's response becomes output: binary data on the  *)
(* item, a parsed OCS response, a parsed listing, or the wrapped response. *)
Response(f) ==
  CASE IsDownload(f)                                   -> "binary"
    [] f.operation = "share"                           -> "parsed"
    [] f.resource = "user" /\ f.operation # "getAll"   -> "parsed"
    [] f.resource = "user"                             -> "listed"
    [] f.resource = "folder" /\ f.operation = "list"   -> "listed"
    [] OTHER                                           -> "wrapped"

-----------------------------------------------------------------------------
(* The item loop.                                                          *)

VARIABLES
  form,           \* the node's parameter values the show conditions look at
  continueOnFail, \* the node's "Continue On Fail" setting
  next,           \* the loop index i (items before it are done)
  returnData,     \* entries pushed so far
  items,          \* item -> "input", "binary" or "error" (download edits items)
  failed,         \* items whose processing hit a catch
  badReads,       \* parameters read that the form does not display
  status,         \* "running", "returned" or "threw"
  output          \* what execute() resolved with

vars == <<form, continueOnFail, next, returnData, items, failed, badReads,
          status, output>>

Init ==
  /\ form \in Forms /\ continueOnFail \in BOOLEAN
  /\ next = 1 /\ returnData = <<>> /\ items = [k \in Items |-> "input"]
  /\ failed = {} /\ badReads = {} /\ status = "running" /\ output = <<>>

\* Variant of the catch that ignores the download case.
Catch_noDownload(i, rd) ==
  /\ failed' = failed \cup {i}
  /\ \/ continueOnFail /\ returnData' = Append(rd, Entry(i, "error"))
        /\ UNCHANGED <<items, status>>
     \/ ~continueOnFail /\ status' = "threw" /\ returnData' = rd
        /\ UNCHANGED items

(* The catch of an item (the request's own catch is the same code): with  *)
(* continueOnFail a download item gets the error as its json, any other   *)
(* operation pushes an error entry, and the loop goes on; otherwise the   *)
(* error is rethrown and execute() fails.  rd is returnData as the item   *)
(* left it.                                                                *)
Catch(i, rd) ==
  /\ failed' = failed \cup {i}
  /\ \/ continueOnFail /\ IsDownload(form)
        /\ items' = [items EXCEPT ![i] = "error"] /\ returnData' = rd
        /\ UNCHANGED status
     \/ continueOnFail /\ ~IsDownload(form)
        /\ returnData' = Append(rd, Entry(i, "error"))
        /\ UNCHANGED <<items, status>>
     \/ ~continueOnFail /\ status' = "threw" /\ returnData' = rd
        /\ UNCHANGED items

\* The generic request succeeded: turn its response into output.
Succeed(i, rd) ==
  /\ UNCHANGED <<failed, status>>
  /\ \/ Response(form) = "binary"
        /\ items' = [items EXCEPT ![i] = "binary"] /\ returnData' = rd
     \/ Response(form) = "listed" /\ UNCHANGED items
        /\ \E n \in 0..MaxListed :
             returnData' = rd \o [k \in 1..n |-> Entry(i, "result")]
     \/ Response(form) \in {"parsed", "wrapped"} /\ UNCHANGED items
        /\ returnData' = Append(rd, Entry(i, "result"))

(* One pass of the loop body for item i.  A parameter the form does not   *)
(* display makes getNodeParameter throw.  A deck, notes, tables or talk   *)
(* operation first makes its own request; then every operation goes on to *)
(* the generic request (for those four with the initial 'GET' of ''), and *)
(* its response is post-processed; the post-processing of a download,     *)
(* share, user or list response may still throw, with the same effect as  *)
(* a failed request.                                                       *)
ProcessItem ==
  /\ status = "running" /\ next \in Items
  /\ next' = next + 1
  /\ UNCHANGED <<form, continueOnFail, output>>
  /\ LET i        == next
         unread   == ParamsRead(form) \ DisplayedNames(Properties, form)
         own      == form.resource \in {"deck", "notes", "tables", "talk"}
         ownEntry == IF own THEN <<Entry(i, OwnRequest(form).entry)>> ELSE <<>>
     IN /\ badReads' = badReads \cup unread
        /\ \/ (unread # {} \/ own) /\ Catch(i, returnData)  \* a read, or the own request, throws
           \/ unread = {} /\ Catch(i, returnData \o ownEntry)
           \/ unread = {} /\ Succeed(i, returnData \o ownEntry)

\* After the loop: a download returns the items, anything else returnData.
Return ==
  /\ status = "running" /\ next = NumItems + 1
  /\ status' = "returned"
  /\ output' = IF IsDownload(form)
               THEN [k \in Items |-> Entry(k, IF items[k] = "error" THEN "error"
                                                ELSE "result")]
               ELSE returnData
  /\ UNCHANGED <<form, continueOnFail, next, returnData, items, failed, badReads>>

\* execute() has resolved or thrown.
Done == status # "running" /\ UNCHANGED vars

Next == ProcessItem \/ Return \/ Done

Spec == Init /\ [][Next]_vars

-----------------------------------------------------------------------------
(* Properties.                                                             *)

TypeOK ==
  /\ form \in Forms /\ continueOnFail \in BOOLEAN
  /\ next \in 1..(NumItems + 1)
  /\ returnData \in Seq([item : Items, kind : {"result", "error", "unwrapped"}])
  /\ items \in [Items -> {"input", "binary", "error"}]
  /\ failed \subseteq Items /\ badReads \subseteq {p.name : p \in Properties}
  /\ status \in {"running", "returned", "threw"}

(* execute() only reads parameters the description displays for the     *)
(* chosen resource, operation and option values: no getNodeParameter      *)
(* call of any item fails because the form hides the parameter.           *)
ReadsDisplayed == badReads = {}

(* With continueOnFail, every item whose processing failed is reported as *)
(* an error in what execute() returns, whether the error was recorded on  *)
(* the item (download) or pushed as an entry.                              *)
FailedItemsReported ==
  (status = "returned" /\ continueOnFail) =>
    \A i \in failed : \E k \in 1..Len(output) : output[k] = Entry(i, "error")

=============================================================================
