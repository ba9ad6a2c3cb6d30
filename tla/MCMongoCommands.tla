-------------------------- MODULE MCMongoCommands --------------------------
EXTENDS MongoCommands, TLC
Same == Permutations(Conn) \cup Permutations(Server) \cup Permutations(Slot)
=============================================================================
