----------------------------- MODULE MCLogTail -----------------------------
(* Instances of LogTail for TLC.                                           *)
EXTENDS LogTail

Empty == {<<>>}
Begun == {<<>>, <<"a">>, <<"a", "nl">>, <<"nl", "b", "nl">>, <<"a", "nl", "b">>}
Pieces == {<<"a">>, <<"nl">>, <<"b", "nl">>, <<"nul", "b">>, <<"a", "nl", "nl">>}
Whole == {<<"a", "nl">>}
============================================================================
