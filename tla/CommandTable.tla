---------------------------- MODULE CommandTable ----------------------------
(***************************************************************************)
(* The table of commands (command/mod.rs: COMMAND_SPECS and                *)
(* EXTRA_COMMAND_SPECS) and what is read from it: the arity, the positions *)
(* of the keys, the categories a user needs, and the commands that write.  *)
(*                                                                         *)
(* A row is name, arity (negative: at least), flags, first key, last key   *)
(* (negative: to the end) and step.  Flags nothing reads (slow, random,    *)
(* loading, stale) are left out.                                           *)
(***************************************************************************)
EXTENDS Integers, Sequences, FiniteSets

fNone == {}
fA == {"admin"}
fF == {"fast"}
fN == {"noscript"}
fR == {"readonly"}
fW == {"write"}
fAN == {"admin", "noscript"}
fCF == {"connection", "fast"}
fCN == {"connection", "noscript"}
fFN == {"fast", "noscript"}
fPF == {"pubsub", "fast"}
fPN == {"pubsub", "noscript"}
fRA == {"readonly", "admin"}
fRB == {"readonly", "blocking"}
fRF == {"readonly", "fast"}
fRN == {"readonly", "noscript"}
fWB == {"write", "blocking"}
fWF == {"write", "fast"}
fWM == {"write", "denyoom"}
fCAN == {"connection", "admin", "noscript"}
fCUF == {"connection", "no_auth", "fast"}
fRAN == {"readonly", "admin", "noscript"}
fRCN == {"readonly", "connection", "noscript"}
fRFN == {"readonly", "fast", "noscript"}
fRPN == {"readonly", "pubsub", "noscript"}
fWMF == {"write", "denyoom", "fast"}

-----------------------------------------------------------------------------
ConnectionRows == {
    <<"PING", -1, fCF, 0, 0, 0>>, <<"ECHO", 2, fCF, 0, 0, 0>>, <<"HELLO", -1, fCUF, 0, 0, 0>>,
    <<"QUIT", -1, fCUF, 0, 0, 0>>, <<"COMMAND", -1, fNone, 0, 0, 0>>, <<"SET", -3, fWM, 1, 1, 1>>,
    <<"SETEX", 4, fWM, 1, 1, 1>>, <<"PSETEX", 4, fWM, 1, 1, 1>>, <<"GET", 2, fRF, 1, 1, 1>>,
    <<"GETDEL", 2, fWF, 1, 1, 1>>, <<"GETEX", -2, fWF, 1, 1, 1>>, <<"DEL", -2, fW, 1, -1, 1>>,
    <<"EXISTS", -2, fRF, 1, -1, 1>>, <<"SELECT", 2, fCF, 0, 0, 0>>}

ExpiryRows == {
    <<"EXPIRE", -3, fWF, 1, 1, 1>>, <<"PEXPIRE", -3, fWF, 1, 1, 1>>, <<"EXPIREAT", -3, fWF, 1, 1, 1>>,
    <<"PEXPIREAT", -3, fWF, 1, 1, 1>>, <<"PERSIST", 2, fWF, 1, 1, 1>>, <<"TTL", 2, fRF, 1, 1, 1>>,
    <<"PTTL", 2, fRF, 1, 1, 1>>, <<"EXPIRETIME", 2, fRF, 1, 1, 1>>, <<"PEXPIRETIME", 2, fRF, 1, 1, 1>>,
    <<"AUTH", -2, fCUF, 0, 0, 0>>, <<"CLIENT", -2, fCN, 0, 0, 0>>, <<"CLIENT INFO", 2, fRCN, 0, 0, 0>>,
    <<"CLIENT LIST", -2, fRCN, 0, 0, 0>>, <<"CLIENT KILL", -3, fCAN, 0, 0, 0>>,
    <<"CLIENT PAUSE", -3, fCAN, 0, 0, 0>>, <<"CLIENT UNPAUSE", 2, fCAN, 0, 0, 0>>,
    <<"CLIENT UNBLOCK", -3, fCAN, 0, 0, 0>>}

ClientAclRows == {
    <<"ACL", -2, fAN, 0, 0, 0>>, <<"ACL HELP", 2, fRAN, 0, 0, 0>>, <<"ACL CAT", -2, fRAN, 0, 0, 0>>,
    <<"ACL DELUSER", -3, fAN, 0, 0, 0>>, <<"ACL DRYRUN", -4, fRAN, 0, 0, 0>>,
    <<"ACL GENPASS", -2, fRAN, 0, 0, 0>>, <<"ACL GETUSER", 3, fRAN, 0, 0, 0>>,
    <<"ACL LIST", 2, fRAN, 0, 0, 0>>, <<"ACL LOAD", 2, fAN, 0, 0, 0>>, <<"ACL LOG", -2, fAN, 0, 0, 0>>,
    <<"ACL SAVE", 2, fAN, 0, 0, 0>>, <<"ACL SETUSER", -3, fAN, 0, 0, 0>>,
    <<"ACL USERS", 2, fRAN, 0, 0, 0>>, <<"ACL WHOAMI", 2, fRAN, 0, 0, 0>>}

ClientTrackingRows == {
    <<"CLIENT CACHING", 3, fCN, 0, 0, 0>>, <<"CLIENT GETREDIR", 2, fRCN, 0, 0, 0>>,
    <<"CLIENT NO-EVICT", 3, fCN, 0, 0, 0>>, <<"CLIENT NO-TOUCH", 3, fCN, 0, 0, 0>>,
    <<"CLIENT REPLY", 3, fCN, 0, 0, 0>>, <<"CLIENT SETINFO", 4, fCN, 0, 0, 0>>,
    <<"CLIENT TRACKING", -3, fCN, 0, 0, 0>>, <<"CLIENT TRACKINGINFO", 2, fRCN, 0, 0, 0>>,
    <<"RESET", 1, fCUF, 0, 0, 0>>}

ServerRows == {
    <<"DBSIZE", 1, fRF, 0, 0, 0>>, <<"TIME", 1, fF, 0, 0, 0>>, <<"INFO", -1, fR, 0, 0, 0>>,
    <<"MONITOR", 1, fAN, 0, 0, 0>>, <<"ROLE", 1, fAN, 0, 0, 0>>, <<"REPLCONF", -3, fAN, 0, 0, 0>>,
    <<"SYNC", 1, fAN, 0, 0, 0>>, <<"PSYNC", 3, fAN, 0, 0, 0>>, <<"REPLICAOF", 3, fAN, 0, 0, 0>>,
    <<"SLAVEOF", 3, fAN, 0, 0, 0>>, <<"RESTORE-ASKING", -4, fWM, 1, 1, 1>>,
    <<"CONFIG", -2, fAN, 0, 0, 0>>, <<"CONFIG GET", -3, fRAN, 0, 0, 0>>,
    <<"CONFIG SET", -4, fAN, 0, 0, 0>>, <<"CONFIG HELP", 2, fRAN, 0, 0, 0>>,
    <<"CONFIG REWRITE", 2, fAN, 0, 0, 0>>}

LatencyRows == {
    <<"LATENCY", -2, fAN, 0, 0, 0>>, <<"LATENCY HELP", 2, fRAN, 0, 0, 0>>,
    <<"LATENCY LATEST", 2, fRAN, 0, 0, 0>>, <<"LATENCY HISTORY", 3, fRAN, 0, 0, 0>>,
    <<"LATENCY RESET", -2, fAN, 0, 0, 0>>, <<"LATENCY DOCTOR", 2, fRAN, 0, 0, 0>>,
    <<"LATENCY GRAPH", 3, fRAN, 0, 0, 0>>, <<"LATENCY HISTOGRAM", -2, fRAN, 0, 0, 0>>,
    <<"SLOWLOG", -2, fAN, 0, 0, 0>>, <<"SLOWLOG GET", -2, fRAN, 0, 0, 0>>,
    <<"SLOWLOG LEN", 2, fRAN, 0, 0, 0>>, <<"SLOWLOG RESET", 2, fAN, 0, 0, 0>>,
    <<"SLOWLOG HELP", 2, fRAN, 0, 0, 0>>}

MemoryRows == {
    <<"MEMORY", -2, fR, 0, 0, 0>>, <<"MEMORY USAGE", -3, fR, 1, 1, 1>>,
    <<"MEMORY HELP", 2, fR, 0, 0, 0>>, <<"MEMORY STATS", 2, fR, 0, 0, 0>>,
    <<"MEMORY DOCTOR", 2, fR, 0, 0, 0>>, <<"MEMORY MALLOC-STATS", 2, fR, 0, 0, 0>>,
    <<"MEMORY PURGE", 2, fR, 0, 0, 0>>, <<"LASTSAVE", 1, fRF, 0, 0, 0>>, <<"SAVE", 1, fAN, 0, 0, 0>>,
    <<"BGSAVE", -1, fAN, 0, 0, 0>>, <<"FLUSHDB", -1, fW, 0, 0, 0>>, <<"FLUSHALL", -1, fW, 0, 0, 0>>}

GenericRows == {
    <<"RANDOMKEY", 1, fR, 0, 0, 0>>, <<"TYPE", 2, fRF, 1, 1, 1>>, <<"KEYS", 2, fR, 0, 0, 0>>,
    <<"WAIT", 3, fRFN, 0, 0, 0>>, <<"WAITAOF", 4, fRFN, 0, 0, 0>>, <<"DELEX", -2, fWF, 1, 1, 1>>,
    <<"DIGEST", 2, fRF, 1, 1, 1>>, <<"DUMP", 2, fR, 1, 1, 1>>, <<"RESTORE", -4, fWM, 1, 1, 1>>,
    <<"MIGRATE", -6, fW, 3, 3, 1>>, <<"LCS", -3, fR, 1, 2, 1>>}

KeyRows == {
    <<"MSETEX", -4, fWM, 2, -1, 2>>, <<"COPY", -3, fWM, 1, 2, 1>>, <<"MOVE", 3, fWF, 1, 1, 1>>,
    <<"RENAME", 3, fW, 1, 2, 1>>, <<"RENAMENX", 3, fWF, 1, 2, 1>>, <<"TOUCH", -2, fRF, 1, -1, 1>>,
    <<"UNLINK", -2, fWF, 1, -1, 1>>, <<"SCAN", -2, fR, 0, 0, 0>>, <<"OBJECT", -2, fR, 0, 0, 0>>,
    <<"OBJECT HELP", 2, fR, 0, 0, 0>>, <<"OBJECT ENCODING", 3, fR, 2, 2, 1>>,
    <<"OBJECT REFCOUNT", 3, fR, 2, 2, 1>>, <<"OBJECT IDLETIME", 3, fR, 2, 2, 1>>,
    <<"OBJECT FREQ", 3, fR, 2, 2, 1>>}

SortTxRows == {
    <<"SORT", -2, fWM, 1, 1, 1>>, <<"SORT_RO", -2, fR, 1, 1, 1>>, <<"MULTI", 1, fFN, 0, 0, 0>>,
    <<"EXEC", 1, fN, 0, 0, 0>>, <<"DISCARD", 1, fFN, 0, 0, 0>>, <<"WATCH", -2, fRN, 1, -1, 1>>,
    <<"UNWATCH", 1, fFN, 0, 0, 0>>, <<"SUBSCRIBE", -2, fPN, 0, 0, 0>>,
    <<"SSUBSCRIBE", -2, fPN, 0, 0, 0>>, <<"PSUBSCRIBE", -2, fPN, 0, 0, 0>>,
    <<"PUBLISH", 3, fPF, 0, 0, 0>>, <<"SPUBLISH", 3, fPF, 0, 0, 0>>}

PubSubRows == {
    <<"UNSUBSCRIBE", -1, fPN, 0, 0, 0>>, <<"PUNSUBSCRIBE", -1, fPN, 0, 0, 0>>,
    <<"SUNSUBSCRIBE", -1, fPN, 0, 0, 0>>, <<"PUBSUB", -2, fPN, 0, 0, 0>>,
    <<"PUBSUB CHANNELS", -2, fRPN, 0, 0, 0>>, <<"PUBSUB NUMSUB", -2, fRPN, 0, 0, 0>>,
    <<"PUBSUB NUMPAT", 2, fRPN, 0, 0, 0>>, <<"PUBSUB HELP", 2, fRPN, 0, 0, 0>>,
    <<"PUBSUB SHARDCHANNELS", -2, fRPN, 0, 0, 0>>, <<"PUBSUB SHARDNUMSUB", -2, fRPN, 0, 0, 0>>}

StreamRows == {
    <<"XADD", -5, fWMF, 1, 1, 1>>, <<"XLEN", 2, fRF, 1, 1, 1>>, <<"XRANGE", -4, fR, 1, 1, 1>>,
    <<"XREVRANGE", -4, fR, 1, 1, 1>>, <<"XREAD", -4, fRB, 0, 0, 0>>, <<"XGROUP", -2, fW, 2, 2, 1>>,
    <<"XGROUP HELP", 2, fR, 0, 0, 0>>, <<"XGROUP CREATE", -5, fW, 2, 2, 1>>,
    <<"XGROUP DESTROY", 4, fWF, 2, 2, 1>>, <<"XGROUP SETID", 5, fWF, 2, 2, 1>>,
    <<"XGROUP CREATECONSUMER", 5, fWF, 2, 2, 1>>, <<"XGROUP DELCONSUMER", 5, fWF, 2, 2, 1>>}

GroupRows == {
    <<"XREADGROUP", -7, fWB, 0, 0, 0>>, <<"XACK", -4, fWF, 1, 1, 1>>, <<"XPENDING", -3, fR, 1, 1, 1>>,
    <<"XINFO", -2, fR, 0, 0, 0>>, <<"XINFO HELP", 2, fR, 0, 0, 0>>, <<"XINFO STREAM", -3, fR, 2, 2, 1>>,
    <<"XINFO GROUPS", 3, fR, 2, 2, 1>>, <<"XINFO CONSUMERS", 4, fR, 2, 2, 1>>,
    <<"XTRIM", -4, fWF, 1, 1, 1>>, <<"XDEL", -3, fWF, 1, 1, 1>>}

StreamEditRows == {
    <<"XSETID", -3, fWF, 1, 1, 1>>, <<"XCLAIM", -6, fWF, 1, 1, 1>>, <<"XAUTOCLAIM", -6, fW, 1, 1, 1>>,
    <<"XACKDEL", -6, fWF, 1, 1, 1>>, <<"XCFGSET", -2, fWF, 1, 1, 1>>, <<"XDELEX", -5, fWF, 1, 1, 1>>}

HashRows == {
    <<"HSET", -4, fWMF, 1, 1, 1>>, <<"HGET", 3, fRF, 1, 1, 1>>, <<"HMGET", -3, fRF, 1, 1, 1>>,
    <<"HGETALL", 2, fRF, 1, 1, 1>>, <<"HKEYS", 2, fRF, 1, 1, 1>>, <<"HVALS", 2, fRF, 1, 1, 1>>,
    <<"HINCRBY", 4, fWMF, 1, 1, 1>>, <<"HINCRBYFLOAT", 4, fWMF, 1, 1, 1>>,
    <<"HMSET", -4, fWMF, 1, 1, 1>>, <<"HSETNX", 4, fWMF, 1, 1, 1>>, <<"HSTRLEN", 3, fRF, 1, 1, 1>>,
    <<"HRANDFIELD", -2, fR, 1, 1, 1>>, <<"HDEL", -3, fWF, 1, 1, 1>>, <<"HEXISTS", 3, fRF, 1, 1, 1>>,
    <<"HLEN", 2, fRF, 1, 1, 1>>, <<"HSCAN", -3, fR, 1, 1, 1>>}

ListRows == {
    <<"LPUSH", -3, fWMF, 1, 1, 1>>, <<"LPUSHX", -3, fWMF, 1, 1, 1>>, <<"RPUSH", -3, fWMF, 1, 1, 1>>,
    <<"RPUSHX", -3, fWMF, 1, 1, 1>>, <<"LPOP", -2, fWF, 1, 1, 1>>, <<"RPOP", -2, fWF, 1, 1, 1>>,
    <<"BLPOP", -3, fW, 1, -2, 1>>, <<"BRPOP", -3, fW, 1, -2, 1>>, <<"LMOVE", 5, fW, 1, 2, 1>>,
    <<"BLMOVE", 6, fW, 1, 2, 1>>, <<"RPOPLPUSH", 3, fW, 1, 2, 1>>, <<"BRPOPLPUSH", 4, fW, 1, 2, 1>>,
    <<"LMPOP", -4, fW, 0, 0, 0>>, <<"BLMPOP", -5, fW, 0, 0, 0>>}

ListReadRows == {
    <<"LRANGE", 4, fR, 1, 1, 1>>, <<"LLEN", 2, fRF, 1, 1, 1>>, <<"LREM", 4, fW, 1, 1, 1>>,
    <<"LPOS", -3, fR, 1, 1, 1>>, <<"LSET", 4, fWM, 1, 1, 1>>, <<"LTRIM", 4, fW, 1, 1, 1>>}

SetRows == {
    <<"SADD", -3, fWMF, 1, 1, 1>>, <<"SREM", -3, fWF, 1, 1, 1>>, <<"SISMEMBER", 3, fRF, 1, 1, 1>>,
    <<"SMISMEMBER", -3, fRF, 1, 1, 1>>, <<"SMEMBERS", 2, fR, 1, 1, 1>>, <<"SCARD", 2, fRF, 1, 1, 1>>,
    <<"SPOP", -2, fWF, 1, 1, 1>>, <<"SRANDMEMBER", -2, fR, 1, 1, 1>>, <<"SSCAN", -3, fR, 1, 1, 1>>,
    <<"SMOVE", 4, fWF, 1, 2, 1>>, <<"SDIFF", -2, fR, 1, -1, 1>>, <<"SDIFFSTORE", -3, fWM, 1, -1, 1>>,
    <<"SINTER", -2, fR, 1, -1, 1>>, <<"SINTERCARD", -3, fR, 2, -1, 1>>,
    <<"SINTERSTORE", -3, fWM, 1, -1, 1>>, <<"SUNION", -2, fR, 1, -1, 1>>,
    <<"SUNIONSTORE", -3, fWM, 1, -1, 1>>}

StringRows == {
    <<"APPEND", 3, fWMF, 1, 1, 1>>, <<"STRLEN", 2, fRF, 1, 1, 1>>, <<"GETRANGE", 4, fR, 1, 1, 1>>,
    <<"SUBSTR", 4, fR, 1, 1, 1>>, <<"SETRANGE", 4, fWM, 1, 1, 1>>, <<"GETSET", 3, fWMF, 1, 1, 1>>,
    <<"SETNX", 3, fWMF, 1, 1, 1>>, <<"MGET", -2, fRF, 1, -1, 1>>, <<"MSET", -3, fWM, 1, -1, 2>>,
    <<"MSETNX", -3, fWM, 1, -1, 2>>, <<"INCR", 2, fWMF, 1, 1, 1>>, <<"INCRBY", 3, fWMF, 1, 1, 1>>,
    <<"DECR", 2, fWMF, 1, 1, 1>>, <<"DECRBY", 3, fWMF, 1, 1, 1>>, <<"INCRBYFLOAT", 3, fWMF, 1, 1, 1>>}

AdminRows == {
    <<"COMMAND DOCS", -2, fR, 0, 0, 0>>, <<"BGREWRITEAOF", 1, fAN, 0, 0, 0>>,
    <<"DEBUG", -2, fAN, 0, 0, 0>>, <<"FAILOVER", -1, fAN, 0, 0, 0>>, <<"HOTKEYS", -1, fRAN, 0, 0, 0>>,
    <<"HOTKEYS GET", 2, fRAN, 0, 0, 0>>, <<"HOTKEYS RESET", 2, fAN, 0, 0, 0>>,
    <<"HOTKEYS START", 2, fAN, 0, 0, 0>>, <<"HOTKEYS STOP", 2, fAN, 0, 0, 0>>,
    <<"LOLWUT", -1, fR, 0, 0, 0>>, <<"MODULE", -2, fAN, 0, 0, 0>>, <<"MODULE HELP", 2, fRAN, 0, 0, 0>>,
    <<"MODULE LIST", 2, fRAN, 0, 0, 0>>, <<"MODULE LOAD", -3, fAN, 0, 0, 0>>,
    <<"MODULE LOADEX", -3, fAN, 0, 0, 0>>, <<"MODULE UNLOAD", 3, fAN, 0, 0, 0>>}

HllRows == {
    <<"SFLUSH", -1, fAN, 0, 0, 0>>, <<"SHUTDOWN", -1, fAN, 0, 0, 0>>, <<"SWAPDB", 3, fAN, 0, 0, 0>>,
    <<"TRIMSLOTS", 2, fAN, 0, 0, 0>>, <<"PFADD", -2, fWMF, 1, 1, 1>>, <<"PFCOUNT", -2, fR, 1, -1, 1>>,
    <<"PFMERGE", -2, fWM, 1, -1, 1>>, <<"PFDEBUG", 3, fA, 2, 2, 1>>, <<"PFSELFTEST", 1, fA, 0, 0, 0>>,
    <<"LINDEX", 3, fR, 1, 1, 1>>, <<"LINSERT", 5, fWM, 1, 1, 1>>}

ZsetRows == {
    <<"ZADD", -4, fWMF, 1, 1, 1>>, <<"ZREM", -3, fWF, 1, 1, 1>>, <<"ZSCORE", 3, fRF, 1, 1, 1>>,
    <<"ZCARD", 2, fRF, 1, 1, 1>>, <<"ZINCRBY", 4, fWMF, 1, 1, 1>>, <<"ZMSCORE", -3, fRF, 1, 1, 1>>,
    <<"ZRANGE", -4, fR, 1, 1, 1>>, <<"ZRANGEBYSCORE", -4, fR, 1, 1, 1>>,
    <<"ZREVRANGEBYSCORE", -4, fR, 1, 1, 1>>, <<"ZRANGEBYLEX", -4, fR, 1, 1, 1>>,
    <<"ZREVRANGEBYLEX", -4, fR, 1, 1, 1>>, <<"ZREVRANGE", -4, fR, 1, 1, 1>>}

ZrangeRows == {
    <<"ZRANGESTORE", -5, fWM, 1, 2, 1>>, <<"ZCOUNT", 4, fRF, 1, 1, 1>>,
    <<"ZLEXCOUNT", 4, fRF, 1, 1, 1>>, <<"ZRANK", -3, fRF, 1, 1, 1>>, <<"ZREVRANK", -3, fRF, 1, 1, 1>>,
    <<"ZREMRANGEBYRANK", 4, fW, 1, 1, 1>>, <<"ZREMRANGEBYSCORE", 4, fW, 1, 1, 1>>,
    <<"ZREMRANGEBYLEX", 4, fW, 1, 1, 1>>}

ZstoreRows == {
    <<"ZUNION", -3, fR, 0, 0, 0>>, <<"ZUNIONSTORE", -4, fWM, 1, 1, 1>>, <<"ZINTER", -3, fR, 0, 0, 0>>,
    <<"ZINTERSTORE", -4, fWM, 1, 1, 1>>, <<"ZINTERCARD", -3, fR, 0, 0, 0>>,
    <<"ZDIFF", -3, fR, 0, 0, 0>>, <<"ZDIFFSTORE", -4, fWM, 1, 1, 1>>, <<"ZPOPMIN", -2, fWF, 1, 1, 1>>,
    <<"ZPOPMAX", -2, fWF, 1, 1, 1>>, <<"ZMPOP", -4, fWF, 0, 0, 0>>, <<"ZRANDMEMBER", -2, fR, 1, 1, 1>>,
    <<"ZSCAN", -3, fR, 1, 1, 1>>, <<"BZPOPMIN", -3, fWF, 1, -2, 1>>, <<"BZPOPMAX", -3, fWF, 1, -2, 1>>,
    <<"BZMPOP", -5, fWF, 0, 0, 0>>}

GeoRows == {
    <<"GEOADD", -5, fWM, 1, 1, 1>>, <<"GEOPOS", -2, fR, 1, 1, 1>>, <<"GEODIST", -4, fR, 1, 1, 1>>,
    <<"GEOHASH", -2, fR, 1, 1, 1>>, <<"GEOSEARCH", -7, fR, 1, 1, 1>>,
    <<"GEOSEARCHSTORE", -8, fWM, 1, 2, 1>>, <<"GEORADIUS", -6, fWM, 1, 1, 1>>,
    <<"GEORADIUS_RO", -6, fR, 1, 1, 1>>, <<"GEORADIUSBYMEMBER", -5, fWM, 1, 1, 1>>,
    <<"GEORADIUSBYMEMBER_RO", -5, fR, 1, 1, 1>>}

BitRows == {
    <<"SETBIT", 4, fWM, 1, 1, 1>>, <<"GETBIT", 3, fRF, 1, 1, 1>>, <<"BITCOUNT", -2, fR, 1, 1, 1>>,
    <<"BITPOS", -3, fR, 1, 1, 1>>, <<"BITOP", -4, fWM, 2, -1, 1>>, <<"BITFIELD", -2, fWM, 1, 1, 1>>,
    <<"BITFIELD_RO", -2, fRF, 1, 1, 1>>}

HashFieldRows == {
    <<"HEXPIRE", -6, fWF, 1, 1, 1>>, <<"HEXPIREAT", -6, fWF, 1, 1, 1>>,
    <<"HPEXPIRE", -6, fWF, 1, 1, 1>>, <<"HPEXPIREAT", -6, fWF, 1, 1, 1>>, <<"HTTL", -5, fRF, 1, 1, 1>>,
    <<"HPTTL", -5, fRF, 1, 1, 1>>, <<"HEXPIRETIME", -5, fRF, 1, 1, 1>>,
    <<"HPEXPIRETIME", -5, fRF, 1, 1, 1>>, <<"HPERSIST", -5, fWF, 1, 1, 1>>,
    <<"HGETDEL", -5, fWF, 1, 1, 1>>, <<"HGETEX", -5, fWF, 1, 1, 1>>, <<"HSETEX", -6, fWMF, 1, 1, 1>>}

ClusterRows == {
    <<"CLUSTER", -2, fA, 0, 0, 0>>, <<"CLUSTER INFO", 2, fRA, 0, 0, 0>>,
    <<"CLUSTER MYID", 2, fRA, 0, 0, 0>>, <<"CLUSTER KEYSLOT", 3, fRA, 0, 0, 0>>,
    <<"CLUSTER COUNTKEYSINSLOT", 3, fRA, 0, 0, 0>>, <<"CLUSTER GETKEYSINSLOT", 4, fRA, 0, 0, 0>>,
    <<"CLUSTER HELP", 2, fRA, 0, 0, 0>>, <<"CLUSTER ADDSLOTS", -3, fA, 0, 0, 0>>,
    <<"CLUSTER ADDSLOTSRANGE", -4, fA, 0, 0, 0>>, <<"CLUSTER DELSLOTS", -3, fA, 0, 0, 0>>,
    <<"CLUSTER DELSLOTSRANGE", -4, fA, 0, 0, 0>>, <<"CLUSTER FAILOVER", -2, fA, 0, 0, 0>>,
    <<"CLUSTER FLUSHSLOTS", 2, fA, 0, 0, 0>>}

ClusterAdminRows == {
    <<"CLUSTER FORGET", 3, fA, 0, 0, 0>>, <<"CLUSTER LINKS", 2, fRA, 0, 0, 0>>,
    <<"CLUSTER MEET", -4, fA, 0, 0, 0>>, <<"CLUSTER NODES", 2, fRA, 0, 0, 0>>,
    <<"CLUSTER REPLICAS", 3, fRA, 0, 0, 0>>, <<"CLUSTER REPLICATE", 3, fA, 0, 0, 0>>,
    <<"CLUSTER RESET", -2, fA, 0, 0, 0>>, <<"CLUSTER SAVECONFIG", 2, fA, 0, 0, 0>>,
    <<"CLUSTER SET-CONFIG-EPOCH", 3, fA, 0, 0, 0>>, <<"CLUSTER SETSLOT", -4, fA, 0, 0, 0>>,
    <<"CLUSTER SHARDS", 2, fRA, 0, 0, 0>>, <<"CLUSTER SLAVES", 3, fRA, 0, 0, 0>>,
    <<"CLUSTER SLOTS", 2, fRA, 0, 0, 0>>, <<"READONLY", 1, fCF, 0, 0, 0>>,
    <<"READWRITE", 1, fCF, 0, 0, 0>>, <<"ASKING", 1, fF, 0, 0, 0>>}

ScriptRows == {
    <<"EVAL", -3, fN, 0, 0, 0>>, <<"EVALSHA", -3, fN, 0, 0, 0>>, <<"EVAL_RO", -3, fRN, 0, 0, 0>>,
    <<"EVALSHA_RO", -3, fRN, 0, 0, 0>>, <<"SCRIPT", -2, fN, 0, 0, 0>>,
    <<"SCRIPT LOAD", 3, fN, 0, 0, 0>>, <<"SCRIPT EXISTS", -3, fRN, 0, 0, 0>>,
    <<"SCRIPT FLUSH", -2, fN, 0, 0, 0>>, <<"SCRIPT HELP", 2, fRN, 0, 0, 0>>,
    <<"SCRIPT KILL", 2, fN, 0, 0, 0>>, <<"SCRIPT DEBUG", 3, fN, 0, 0, 0>>}

FunctionRows == {
    <<"FCALL", -3, fN, 0, 0, 0>>, <<"FCALL_RO", -3, fRN, 0, 0, 0>>, <<"FUNCTION", -2, fN, 0, 0, 0>>,
    <<"FUNCTION LOAD", -3, fN, 0, 0, 0>>, <<"FUNCTION DELETE", 3, fN, 0, 0, 0>>,
    <<"FUNCTION LIST", -2, fRN, 0, 0, 0>>, <<"FUNCTION STATS", 2, fRN, 0, 0, 0>>,
    <<"FUNCTION DUMP", 2, fRN, 0, 0, 0>>, <<"FUNCTION RESTORE", -3, fN, 0, 0, 0>>,
    <<"FUNCTION FLUSH", -2, fN, 0, 0, 0>>, <<"FUNCTION HELP", 2, fRN, 0, 0, 0>>}

SentinelRows == {
    <<"SENTINEL", -2, fA, 0, 0, 0>>, <<"SENTINEL HELP", 2, fRA, 0, 0, 0>>,
    <<"SENTINEL GET-MASTER-ADDR-BY-NAME", 3, fRA, 0, 0, 0>>, <<"SENTINEL MASTERS", 2, fRA, 0, 0, 0>>,
    <<"SENTINEL MASTER", 3, fRA, 0, 0, 0>>, <<"SENTINEL REPLICAS", 3, fRA, 0, 0, 0>>,
    <<"SENTINEL SENTINELS", 3, fRA, 0, 0, 0>>, <<"SENTINEL IS-MASTER-DOWN-BY-ADDR", 6, fA, 0, 0, 0>>,
    <<"SENTINEL RESET", 3, fA, 0, 0, 0>>}

SentinelAdminRows == {
    <<"SENTINEL FAILOVER", 3, fA, 0, 0, 0>>, <<"SENTINEL CKQUORUM", 3, fA, 0, 0, 0>>,
    <<"SENTINEL FLUSHCONFIG", 2, fA, 0, 0, 0>>, <<"SENTINEL MONITOR", 6, fA, 0, 0, 0>>,
    <<"SENTINEL REMOVE", 3, fA, 0, 0, 0>>, <<"SENTINEL SET", -5, fA, 0, 0, 0>>,
    <<"SENTINEL PENDING-SCRIPTS", 2, fRA, 0, 0, 0>>, <<"SENTINEL INFO-CACHE", -3, fRA, 0, 0, 0>>,
    <<"SENTINEL SIMULATE-FAILURE", -3, fA, 0, 0, 0>>, <<"SENTINEL CONFIG", -4, fA, 0, 0, 0>>,
    <<"SENTINEL DEBUG", -2, fA, 0, 0, 0>>, <<"SENTINEL MYID", 2, fRA, 0, 0, 0>>}

-----------------------------------------------------------------------------
CommandRows == UNION {
    ConnectionRows, ExpiryRows, ClientAclRows, ClientTrackingRows, ServerRows, LatencyRows,
    MemoryRows, GenericRows, KeyRows, SortTxRows, PubSubRows, StreamRows, GroupRows, StreamEditRows,
    HashRows, ListRows, ListReadRows, SetRows, StringRows, AdminRows, HllRows, ZsetRows, ZrangeRows,
    ZstoreRows, GeoRows, BitRows, HashFieldRows, ClusterRows, ClusterAdminRows, ScriptRows,
    FunctionRows, SentinelRows, SentinelAdminRows}

\* COMMAND_SPEC_MAP.
CommandSpecs ==
    [n \in {r[1] : r \in CommandRows} |->
        LET r == CHOOSE x \in CommandRows : x[1] = n
        IN [name |-> n, arity |-> r[2], flags |-> r[3], first |-> r[4], last |-> r[5], step |-> r[6]]]

Known(name) == name \in DOMAIN CommandSpecs
HasFlag(name, flag) == Known(name) /\ flag \in CommandSpecs[name].flags
IsWriteCommandName(name) == HasFlag(name, "write")

MutCommandKeyPositions(spec, argc) ==
    LET last == IF spec.last < 0 THEN argc + spec.last - 1 ELSE spec.last
    IN {p \in spec.first .. (argc - 1) : p <= last}

\* The positions of the keys in argv, counted from 0: every last key below 0
\* means the last argument.
CommandKeyPositions(spec, argc) ==
    LET last == IF spec.last < 0 THEN argc - 1 ELSE spec.last
        step == IF spec.step < 1 THEN 1 ELSE spec.step
    IN IF spec.first = 0 THEN {}
       ELSE {p \in spec.first .. (argc - 1) : p <= last /\ (p - spec.first) % step = 0}

=============================================================================
