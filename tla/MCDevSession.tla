---------------------------- MODULE MCDevSession ----------------------------
\* Three contents, the last of which does not build.
EXTENDS DevSession

MCContents == 0..2
MCBroken == {2}
=============================================================================
