----------------------------- MODULE MCSdkRun -------------------------------
(* Instances of SdkRun for TLC. *)
EXTENDS SdkRun

(* Handlers that want everything, in either order and with either answer to errors, and
   two that want less. *)
SomePlans ==
    [order: {"input", "completion"}, onError: {"skip"}, maxRows: {Rows+1}, maxItems: {Rows+1}]
    \cup [order: {"input"}, onError: {"fail"}, maxRows: {Rows+1}, maxItems: {Rows+1}]
    \cup [order: {"input"}, onError: {"skip"}, maxRows: {Rows-1}, maxItems: {Rows+1}]
    \cup [order: {"input"}, onError: {"skip"}, maxRows: {Rows+1}, maxItems: {1}]
=============================================================================
