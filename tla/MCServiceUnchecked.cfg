SPECIFICATION Spec
CONSTANT Dependency = {"datasetAPI", "filterAPI"}
PROPERTY TakesOnlyWithAllUp
