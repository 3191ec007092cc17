---------------------------- MODULE MCProcesses ----------------------------
(***************************************************************************)
(* Pieces of machinery that have no state in common, for TLC: the          *)
(* publisher, the vector columns, the migrations and the MinerU client.  A *)
(* behaviour is about one of them.                                         *)
(***************************************************************************)
EXTENDS ChunkVectors, Publisher, Migration, MinerU

VARIABLE part

allVars == <<part, vectorVars, publishVars, migrationVars, minerU>>

\* The names of files sort as text, so version 10 is listed before version 2.
MCListings == {<<1, 10, 2>>, <<1, 2>>, <<1, 1, 2>>}

\* The processes have started long ago, unless the behaviour is about starting.
MCInit ==
  /\ VectorInit /\ PublisherInit /\ MinerUInit
  /\ \/ part = "migration" /\ modelDim = 1 /\ MigrationInit
     \/ /\ part \in {"vectors", "publisher", "mineru"}
        /\ part # "vectors" => modelDim = 1
        /\ files = [p \in Starters |-> <<1, 2>>] /\ executed = <<1, 2>> /\ lock = "free"
        /\ starter = [p \in Starters |-> [Fresh EXCEPT !.at = "done"]]
  /\ (parse.outcome = "transient") = (part = "mineru")

Others(own) ==
  /\ UNCHANGED part
  /\ own # "vectors" => UNCHANGED <<chunk, modelDim, columns, indexes, vecEnsured, vecDDLMu, writer, texts, settled>>
  /\ own # "publisher" => UNCHANGED <<publisher, broker, call, result>>
  /\ own # "migration" => UNCHANGED <<files, lock, executed, starter>>
  /\ own # "mineru" => UNCHANGED minerU

MCNext ==
  \/ part = "vectors" /\ VectorNext /\ Others(part)
  \/ part = "publisher" /\ PublisherNext /\ Others(part)
  \/ part = "migration" /\ MigrationNext /\ Others(part)
  \/ part = "mineru" /\ MinerUNext /\ Others(part)

MCSpec ==
  MCInit /\ [][MCNext]_allVars /\ VectorFairness /\ PublisherFairness /\ MigrationFairness
  /\ MinerUFairness

\* Whoever calls one of these gets an answer: a write of a vector, a publish
\* and a parse end, whatever the broker, the database and the service do.
CallsEnd == WritesEnd /\ PublishEnds /\ ParsesEnd
=============================================================================
