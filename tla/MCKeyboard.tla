----------------------------- MODULE MCKeyboard -----------------------------
(* One printing key, one key that needs its prefix.                        *)
EXTENDS Keyboard

MCPrinting == {"A"}
MCLower == [k \in MCPrinting |-> "a"]
MCUpper == [k \in MCPrinting |-> "A"]
MCSpecial == {"left"}
=============================================================================
