---------------------------- MODULE MCRegistration ----------------------------
\* An instance of Registration for TLC: files with up to three entries.
EXTENDS Registration

CONSTANTS agent, blog, database, blank, null

AllEntries == {agent, blog, database, blank, null}
SomeFiles  == {<<>>, <<agent, blog, database>>, <<blog, blank, agent>>,
               <<blog, null, agent>>}
=============================================================================
