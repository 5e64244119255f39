---------------------------- MODULE MCNavigation ----------------------------
(* The keyboard for TLC: keys that mean something else already, the        *)
(* answer of a dialog, the Space of a button, the digit of a tab, keys of  *)
(* earlier releases, and a binding left empty, the default.                *)
EXTENDS Navigation

Keymap ==
  [quit |-> "y", help |-> " ", switch_focus |-> "w", refresh |-> "r",
   echo_topic |-> "1", call_service |-> "", send_goal |-> "g"]

MCKeymaps == {Keymap}
MCCharacters ==
  { Digits[t + 1] : t \in Tabs } \cup { Keymap[b] : b \in Bindings \ {"call_service"} }
=============================================================================
