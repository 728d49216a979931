------------------------------ MODULE MCDcBot ------------------------------
(***************************************************************************)
(* DcBot with few documents.                                               *)
(***************************************************************************)

EXTENDS DcBot

\* The bot is started as it is, to go back from the second page, or with -drain.
OneFlag == {<<Off, FALSE>>, <<2, FALSE>>, <<Off, TRUE>>}

\* One document has a PDF and a text, the others have no PDF.
OnePdf == (Docs \ {5}) \X {1}

=============================================================================
