---------------------------- MODULE MCMenuConfig ----------------------------
EXTENDS MenuConfig

F == INSTANCE KconfigFiles
MCKconfigs == <<F!Selected, F!ChoiceInMenu, F!OptionalChoice, F!IntInMenu, F!DependsOnLater>>

\* A file with one value; and one in which the int is out of the range that it has while
\* A is y.
AllY == <<<<"A", 2>>>>
Refused == <<<<"A", 2>>, <<"I", 3>>>>
MCConfigs == <<{<<>>, AllY}, {AllY}, {<<>>, AllY}, {Refused}, {AllY}>>
MCOrder == F!Order

RefusedKconfigs == <<F!IntInMenu>>
RefusedConfigs == <<{Refused}>>
=============================================================================
