---------------------------- MODULE MCMetadataSheet ----------------------------
(***************************************************************************)
(* Small instances of MetadataSheet for TLC: the three kinds of jobs, with *)
(* texts that are absent, short, as long as the column may be, or longer.  *)
(***************************************************************************)
EXTENDS MetadataSheet

\* A dataset job, a filter job and a custom job.
Kinds == {<<FALSE, FALSE>>, <<TRUE, FALSE>>, <<TRUE, TRUE>>}

\* An absent list, an empty one, one whose entry is empty, and one with two texts.
Lists == {Nil, <<>>, << <<0, 0>> >>, << <<1, 0>>, <<2, 1>> >>}

dimension(id, area, length) ==
    [id |-> id, isAreaType |-> area, label |-> length, description |-> 2,
     quality |-> 0, qualityURL |-> length]

version(parses, alerts) ==
    [releaseDate |-> IF parses THEN 2 ELSE 0, alerts |-> alerts]

related(length) == [title |-> length, description |-> 0, href |-> 1]

MCRequests ==
    {[isFilterJob |-> k[1], isCustom |-> k[2], multivariate |-> k[1],
      filterDimensions |-> IF k[1] THEN <<dimension("d1", TRUE, 1), dimension("d2", n = 0, 1)>>
                                   ELSE <<>>,
      nodes |-> <<dimension("d2", FALSE, n), dimension("d1", FALSE, 1)>>,
      title |-> n, description |-> n, releaseDate |-> 2, uri |-> 1, unit |-> 0,
      contacts |-> l, alerts |-> l, qmi |-> n, url |-> 1,
      dimensions |-> <<dimension("d1", FALSE, n)>>,
      versions |-> v,
      relatedContent |-> IF l = Nil THEN Nil ELSE [i \in DOMAIN l |-> related(n)]] :
        k \in Kinds, n \in {0, 3, 5}, l \in Lists,
        v \in {<<>>, <<version(TRUE, <<0, 2>>), version(FALSE, <<>>)>>,
               <<version(TRUE, <<0, 2>>)>>}}
=============================================================================
