--------------------------- MODULE MockedMethods ---------------------------
(***************************************************************************)
(* The methods that the generated mocks of pkg/ stand in for.  Generated   *)
(* code differs from method to method only in what is recorded here: how   *)
(* many parameters are named one by one, whether variadic ones follow, and *)
(* what is done with each value an expectation returns.                    *)
(***************************************************************************)
LOCAL INSTANCE Sequences

(***************************************************************************)
(* How a method turns a return value into its result: with Arguments.Error,*)
(* which takes a nil, with a cast after a test for nil, or with a cast.    *)
(***************************************************************************)
Error == "error"
Nilable == "nilable"
Plain == "plain"

Method(fixed, variadic, results) ==
    [fixed |-> fixed, variadic |-> variadic, results |-> results]

Cache_Delete == Method(2, FALSE, <<>>)
Cache_DeleteKeysMatching == Method(2, FALSE, <<Error>>)
Cache_Get == Method(2, FALSE, <<Nilable, Plain>>)
Cache_Set == Method(3, FALSE, <<>>)

Locker_AcquireLock == Method(2, FALSE, <<Plain>>)
Locker_ReleaseLock == Method(2, FALSE, <<>>)
Locker_TryFunc == Method(3, FALSE, <<Plain, Error>>)

IndexUseCase_CreateIndexIfNotExist == Method(4, FALSE, <<Error>>)
IndexUseCase_GetExistingIndexes == Method(2, FALSE, <<Nilable, Error>>)

MigrationInterface_Down == Method(1, FALSE, <<Error>>)
MigrationInterface_Name == Method(0, FALSE, <<Plain>>)
MigrationInterface_Up == Method(1, FALSE, <<Error>>)
MigrationInterface_Version == Method(0, FALSE, <<Nilable>>)

MigrationManager_RunMigrations == Method(2, FALSE, <<Error>>)

MigrationRepository_LoadMigrations == Method(0, FALSE, <<Nilable>>)

NodeFactory_ParseAndSortMigrations == Method(2, FALSE, <<Nilable, Nilable, Error>>)

MongoClient_Database == Method(1, TRUE, <<Nilable>>)
MongoClient_Disconnect == Method(1, FALSE, <<Error>>)
MongoClient_Ping == Method(2, FALSE, <<Error>>)

MongoCollection_Aggregate == Method(2, TRUE, <<Nilable, Error>>)
MongoCollection_BulkWrite == Method(2, TRUE, <<Nilable, Error>>)
MongoCollection_Clone == Method(0, TRUE, <<Nilable>>)
MongoCollection_CountDocuments == Method(2, TRUE, <<Plain, Error>>)
MongoCollection_CreateIndexesIfNotExist == Method(2, FALSE, <<Error>>)
MongoCollection_Database == Method(0, FALSE, <<Nilable>>)
MongoCollection_DeleteMany == Method(2, TRUE, <<Nilable, Error>>)
MongoCollection_DeleteOne == Method(2, TRUE, <<Nilable, Error>>)
MongoCollection_Distinct == Method(3, TRUE, <<Nilable>>)
MongoCollection_Drop == Method(1, TRUE, <<Error>>)
MongoCollection_EstimatedDocumentCount == Method(1, TRUE, <<Plain, Error>>)
MongoCollection_Find == Method(2, TRUE, <<Nilable, Error>>)
MongoCollection_FindOne == Method(2, TRUE, <<Nilable>>)
MongoCollection_FindOneAndDelete == Method(2, TRUE, <<Nilable>>)
MongoCollection_FindOneAndReplace == Method(3, TRUE, <<Nilable>>)
MongoCollection_FindOneAndUpdate == Method(3, TRUE, <<Nilable>>)
MongoCollection_Indexes == Method(0, FALSE, <<Nilable>>)
MongoCollection_InsertMany == Method(2, TRUE, <<Nilable, Error>>)
MongoCollection_InsertOne == Method(2, TRUE, <<Nilable, Error>>)
MongoCollection_Name == Method(0, FALSE, <<Plain>>)
MongoCollection_ReplaceOne == Method(3, TRUE, <<Nilable, Error>>)
MongoCollection_SearchIndexes == Method(0, FALSE, <<Plain>>)
MongoCollection_UpdateByID == Method(3, TRUE, <<Nilable, Error>>)
MongoCollection_UpdateMany == Method(3, TRUE, <<Nilable, Error>>)
MongoCollection_UpdateOne == Method(3, TRUE, <<Nilable, Error>>)
MongoCollection_Watch == Method(2, TRUE, <<Nilable, Error>>)

MongoCursor_All == Method(2, FALSE, <<Error>>)
MongoCursor_Close == Method(1, FALSE, <<Error>>)
MongoCursor_Decode == Method(1, FALSE, <<Error>>)
MongoCursor_Err == Method(0, FALSE, <<Error>>)
MongoCursor_ID == Method(0, FALSE, <<Plain>>)
MongoCursor_Next == Method(1, FALSE, <<Plain>>)
MongoCursor_TryNext == Method(1, FALSE, <<Plain>>)

MongoDatabase_Collection == Method(1, TRUE, <<Nilable>>)

MongoIndexView_CreateOne == Method(2, TRUE, <<Plain, Error>>)
MongoIndexView_List == Method(1, TRUE, <<Nilable, Error>>)

MongoSingleResult_Decode == Method(1, FALSE, <<Error>>)

Queue_Pop == Method(2, FALSE, <<Nilable, Error>>)
Queue_Push == Method(3, FALSE, <<Error>>)

RandomnessGenerator_NewString == Method(1, FALSE, <<Plain, Error>>)
RandomnessGenerator_NewUUID == Method(0, FALSE, <<Nilable>>)

RedisClient_Close == Method(0, FALSE, <<Error>>)
RedisClient_Del == Method(1, TRUE, <<Nilable>>)
RedisClient_Get == Method(2, FALSE, <<Nilable>>)
RedisClient_Keys == Method(2, FALSE, <<Nilable>>)
RedisClient_LPush == Method(2, TRUE, <<Nilable>>)
RedisClient_Ping == Method(1, FALSE, <<Nilable>>)
RedisClient_RPop == Method(2, FALSE, <<Nilable>>)
RedisClient_Set == Method(4, FALSE, <<Nilable>>)

(* Methods of the same shape are one element of this set. *)
Methods ==
    {Cache_Delete, Cache_DeleteKeysMatching, Cache_Get, Cache_Set,
     Locker_AcquireLock, Locker_ReleaseLock, Locker_TryFunc,
     IndexUseCase_CreateIndexIfNotExist, IndexUseCase_GetExistingIndexes,
     MigrationInterface_Down, MigrationInterface_Name,
     MigrationInterface_Up, MigrationInterface_Version,
     MigrationManager_RunMigrations, MigrationRepository_LoadMigrations,
     NodeFactory_ParseAndSortMigrations, MongoClient_Database,
     MongoClient_Disconnect, MongoClient_Ping, MongoCollection_Aggregate,
     MongoCollection_BulkWrite, MongoCollection_Clone,
     MongoCollection_CountDocuments,
     MongoCollection_CreateIndexesIfNotExist, MongoCollection_Database,
     MongoCollection_DeleteMany, MongoCollection_DeleteOne,
     MongoCollection_Distinct, MongoCollection_Drop,
     MongoCollection_EstimatedDocumentCount, MongoCollection_Find,
     MongoCollection_FindOne, MongoCollection_FindOneAndDelete,
     MongoCollection_FindOneAndReplace, MongoCollection_FindOneAndUpdate,
     MongoCollection_Indexes, MongoCollection_InsertMany,
     MongoCollection_InsertOne, MongoCollection_Name,
     MongoCollection_ReplaceOne, MongoCollection_SearchIndexes,
     MongoCollection_UpdateByID, MongoCollection_UpdateMany,
     MongoCollection_UpdateOne, MongoCollection_Watch, MongoCursor_All,
     MongoCursor_Close, MongoCursor_Decode, MongoCursor_Err, MongoCursor_ID,
     MongoCursor_Next, MongoCursor_TryNext, MongoDatabase_Collection,
     MongoIndexView_CreateOne, MongoIndexView_List,
     MongoSingleResult_Decode, Queue_Pop, Queue_Push,
     RandomnessGenerator_NewString, RandomnessGenerator_NewUUID,
     RedisClient_Close, RedisClient_Del, RedisClient_Get, RedisClient_Keys,
     RedisClient_LPush, RedisClient_Ping, RedisClient_RPop, RedisClient_Set}
=============================================================================
