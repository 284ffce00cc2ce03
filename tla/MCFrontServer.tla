---------------------------- MODULE MCFrontServer ----------------------------
(* FrontServer on a small instance: two channels over two places for sockets, *)
(* two tabs, three builds, apps of two pages: with one address, with a static *)
(* and a dynamic claim to a url, or with a name that urls encode.             *)
EXTENDS FrontServer

CONSTANTS c1, c2, t1, t2

MCChannels == {c1, c2}
MCPublishers == {c1}
MCSockets == 1 .. 2
MCForwarded == 1 .. 2
MCTabs == {t1, t2}

S(name) == Static(<<name>>)
MCFiles == {
  <<S("index")>>, <<S("tasks")>>, <<S("tasks"), S("index")>>, <<Param("id")>>,
  <<S("tasks"), S("new")>>, <<S("tasks"), Param("id")>>, <<Param("id"), S("new")>>,
  <<S("città")>>}
MCTexts == {<<>>, <<"tasks">>, <<"new">>, <<"città">>, <<"tasks", "new">>}
MCUnsafe == {"città"}
=============================================================================
