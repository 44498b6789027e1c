---------------------------- MODULE MCUsbWriter ----------------------------
(* The write modes, one plan of each shape that changes the script. *)
EXTENDS UsbWriter

Item(class, persist) == [class |-> class, persist |-> persist]
Plan(flow, update, items) ==
  [flow |-> flow, update |-> update, items |-> items, split |-> FALSE, first |-> TRUE,
   payload |-> "raw-iso"]

Direct == Plan("direct", FALSE, <<Item("live", "none")>>)
Split == [Plan("single", FALSE, <<Item("installer", "none")>>) EXCEPT !.split = TRUE]
Store == [Plan("managed", FALSE, <<Item("live", "plain")>>) EXCEPT !.payload = "store", !.first = FALSE]
Encrypting == Plan("managed", FALSE, <<Item("live", "encrypted")>>)
SharedStore == Plan("shared", FALSE, <<Item("live", "none"), Item("live", "bare")>>)
RawImages == Plan("raw", FALSE, <<Item("live", "plain"), Item("installer", "none")>>)
Stores == [Plan("raw", FALSE, <<Item("live", "none"), Item("live", "none")>>)
             EXCEPT !.payload = "store", !.first = FALSE]
RawUpdate == [RawImages EXCEPT !.update = TRUE]

MCJobs == {Direct, Split, Store, Encrypting, SharedStore, RawImages, Stores, RawUpdate}
MCUpdates == {[Split EXCEPT !.update = TRUE], [Store EXCEPT !.update = TRUE],
              [SharedStore EXCEPT !.update = TRUE]}
=============================================================================
