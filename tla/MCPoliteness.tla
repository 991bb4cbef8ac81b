---------------------------- MODULE MCPoliteness ----------------------------
EXTENDS SitePoliteness, TLC

CONSTANTS b1, b2

\* One batch crawls with two lanes, the other with one.
MCLanes == {<<b1, 1>>, <<b1, 2>>, <<b2, 1>>}
=============================================================================
