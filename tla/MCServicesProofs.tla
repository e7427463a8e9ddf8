-------------------------- MODULE MCServicesProofs --------------------------
(***************************************************************************)
(* The composition of the services: a behaviour of it is a behaviour of    *)
(* each of them, so what is proved of a service holds in the composition,  *)
(* for any constants.                                                      *)
(***************************************************************************)
EXTENDS MCServices, ServicesProofs, ContentProofs, ChannelPostsProofs, TLAPS

Services == {"voting", "posts", "broadcasts", "members", "descriptions", "recommendations",
             "database", "statistics", "channels"}

(* One service runs, and the same one throughout.                          *)
ServiceOK == service \in Services

LEMMA OneService == MCSpec => []ServiceOK
<1> DEFINE all == <<service, votingVars, postVars, pushVars, memberVars, describeVars, batchVars, dbVars, statVars, channelVars>>
<1>1. MCInit => ServiceOK
  BY DEF MCInit, Services, ServiceOK
<1>2. ServiceOK /\ [MCNext]_all => ServiceOK'
  BY DEF MCNext, ServiceOK
<1> QED BY <1>1, <1>2, PTL DEF MCSpec

(* Each step is a step of one service and leaves the others alone.         *)
THEOREM ServicesCompose ==
    MCSpec => /\ VotingSpec /\ PostSpec /\ PushSpec /\ MembersSpec /\ DescribeSpec
              /\ BatchSpec /\ DbSpec /\ StatsSpec /\ ChannelSpec
<1> DEFINE all == <<service, votingVars, postVars, pushVars, memberVars, describeVars, batchVars, dbVars, statVars, channelVars>>
<1>1. MCInit => /\ VotingInit /\ PostInit /\ PushInit /\ MembersInit /\ DescribeInit
                /\ BatchInit /\ DbInit /\ StatsInit /\ ChannelInit
  BY DEF MCInit
<1>2. [MCNext]_all => /\ [VotingNext]_votingVars /\ [PostNext]_postVars /\ [PushNext]_pushVars
                      /\ [MembersNext]_memberVars /\ [DescribeNext]_describeVars /\ [BatchNext]_batchVars
                      /\ [DbNext]_dbVars /\ [StatsNext]_statVars /\ [ChannelNext]_channelVars
  BY Zenon DEF MCNext
<1> QED BY <1>1, <1>2, PTL DEF MCSpec, VotingSpec, PostSpec, PushSpec, MembersSpec, DescribeSpec,
           BatchSpec, DbSpec, StatsSpec, ChannelSpec

(* The tables and the local variables of every service keep their types.   *)
THEOREM TypesOKHolds == MCSpec => []TypesOK
<1>1. /\ ServiceOK /\ VotingTypeOK /\ PostTypeOK /\ PushTypeOK /\ MembersTypeOK /\ DescribeTypeOK
      /\ BatchTypeOK /\ DbTypeOK /\ StatsTypeOK /\ ChannelTypeOK
      => TypesOK
  BY DEF Services, ServiceOK, TypesOK
<1> QED BY <1>1, OneService, ServicesCompose, VotingTypesHold, PostTypesHold, PushTypesHold, MembersTypesHold,
           DescribeTypesHold, BatchTypesHold, DbTypesHold, StatsTypesHold, ChannelTypesHold, PTL
=============================================================================
