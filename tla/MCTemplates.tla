------------------------------ MODULE MCTemplates ------------------------------
(***************************************************************************)
(* Small instances of the template store for TLC.                          *)
(***************************************************************************)
EXTENDS Templates

CONSTANTS plain, greeting

TwoTexts == {plain, greeting}

OneVariable == [text \in Texts |-> IF text = greeting THEN {"Name"} ELSE {}]
================================================================================
