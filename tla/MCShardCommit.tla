---- MODULE MCShardCommit ----
EXTENDS ShardCommit
CONSTANTS c1, c2
MCClosers == {c1, c2}
MCPair == {"base", "profile"}
====
