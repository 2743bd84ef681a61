\* Two input items per node; array responses of up to two entries; one field
\* name declared at most twice, with a type accepting anything and one that
\* validates.  Two executions of the assistant operation; threads.create's
\* limit of 32 scaled to 1, with histories of up to 2 messages so that one
\* crosses it.
CONSTANTS
  NumItems = 2
  MaxListed = 2
  Names = {"a"}
  FieldTypes = {"any", "number"}
  MaxEntries = 2
  Execs = {1, 2}
  Versions = {"1.2", "1.3"}
  MaxHistory = 2
  ThreadCreateLimit = 1
SPECIFICATION Spec
INVARIANTS TypeOK NextCloudReadsDisplayed NextCloudFailedItemsReported NasaReadsDisplayed ChargebeeReadsDisplayed AssistantNativeToolsKept AssistantThreadMirrorsHistory
