------------------------------- MODULE MCConf -------------------------------
EXTENDS Conf

F == INSTANCE KconfigFiles
MCKconfigs == <<F!Selected, F!OptionalChoice, F!IntInMenu, F!DependsOnLater>>

\* A configuration of another Kconfig file: one of its symbols is unknown here, and its
\* other values are of other types and ranges.
Strange == <<<<"X", 2>>, <<"T", 1>>, <<"I", 3>>>>
MCConfigs == <<{<<>>, Strange}, {<<>>}, {<<>>, Strange}, {<<>>, Strange}>>
MCOrder == F!Order
=============================================================================
