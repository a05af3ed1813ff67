SPECIFICATION Spec
CONSTANTS
  MaxOpenAPINodes = 40
  MaxOpenAPIDepth = 12
  MaxMarkdownDiffDepth = 2
  MaxMarkdownLCSCells = 20
  Sources <- MCSources
  Lines <- MCLines
  Parse <- ParseOpenAPI
  CompareSchemas <- CompareSchemaFields
  SchemaView <- SchemaDialectView
  Allows <- SchemaAllows
  Requests <- MCRequests
  Responses <- MCResponses
  Instances <- MCInstances
INVARIANTS
  TypeInvariant
  NothingToHandleMeansCompatible
  NoChangeMeansSameContract
  ReferencesAreFollowed
  TextChangesReplay
CHECK_DEADLOCK FALSE
