------------------------------ MODULE MCRoutes ------------------------------
(* Routes on a small instance: files with one address for two of them, with a *)
(* static and a dynamic claim to a url, and with a name that urls encode.     *)
EXTENDS Routes

S(name) == Static(<<name>>)

MCFiles == {
  <<S("index")>>, <<S("tasks")>>, <<S("tasks"), S("index")>>, <<Param("id")>>,
  <<S("tasks"), S("new")>>, <<S("tasks"), Param("id")>>, <<Param("id"), S("new")>>,
  <<S("città")>>}
MCTexts == {<<>>, <<"tasks">>, <<"new">>, <<"città">>, <<"tasks", "new">>}
MCUnsafe == {"città"}
=============================================================================
