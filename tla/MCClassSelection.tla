-------------------------- MODULE MCClassSelection --------------------------
(* A zonal and a regional class of one driver, then a class of another driver. *)
EXTENDS ClassSelection

Region == 1
Zone == 2

In(key, values) == [key |-> key, values |-> values]

MCNames == <<"zonal", "regional", "local">>

MCDriver == [zonal |-> "csi", regional |-> "csi", local |-> "other"]

\* zonal: zone 1 or 2 of region 1, the expressions against the order of the keys,
\* or zone 2 anywhere; regional: region 2, and a term that allows nothing.
MCAllowed ==
  [zonal    |-> << <<In(Zone, <<1, 2>>), In(Region, <<1>>)>>, <<In(Zone, <<2>>)>> >>,
   regional |-> << <<>>, <<In(Region, <<2>>)>> >>,
   local    |-> <<>>]

MCKeyLists == {<<>>, <<Zone>>, <<Region>>, <<Zone, Region>>, <<Region, Zone>>}
=============================================================================
