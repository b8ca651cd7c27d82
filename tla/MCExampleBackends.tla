-------------------------- MODULE MCExampleBackends --------------------------
(* A frame holds the owner, a visitor, or nobody who is known (a special     *)
(* vehicle of LPRS, an unregistered face of FRS).                            *)
EXTENDS ExampleBackends

CONSTANTS owner, visitor

MCSubjects == {owner, visitor}
MCContents == {{}, {owner}, {visitor}}

=============================================================================
