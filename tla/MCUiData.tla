------------------------------ MODULE MCUiData ------------------------------
(* The topic data for TLC.  std::map lists topics in name order: the        *)
(* listings are the sublists of <<pose, scan>>.                             *)
EXTENDS UiData

CONSTANTS pose, scan

MCTopics == {pose, scan}
MCListings == {<< >>, <<pose>>, <<scan>>, <<pose, scan>>}
MCDemo == <<pose>>
=============================================================================
